---- MODULE Spec2Model ----
(***************************************************************************)
(* A model of erdetect (MultimodalNeuroimagingLab/erdetect): the N1        *)
(* detector (src/app/detection.py), the epoching and averaging engine      *)
(* (src/utils/bids.py), the stimulation-pair construction of the           *)
(* orchestration (src/erdetect/_erdetect.py, src/main_run.py) and the      *)
(* configuration store (src/app/config.py).                                *)
(*                                                                         *)
(* Time is counted in ticks; Rate gives the samples per tick, so that the  *)
(* code's int(round(seconds * sampling_rate)) is a real rounding.          *)
(* Sequences are 1-based here and 0-based in the code: At and PySlice take *)
(* the code's 0-based positions.                                           *)
(***************************************************************************)
EXTENDS Integers, Sequences, FiniteSets, TLC

VARIABLES det, ep, pl, cf, run

vars == <<det, ep, pl, cf, run>>

(***************************************************************************)
(* Numeric helpers                                                         *)
(***************************************************************************)

\* np.nan in an integer-valued tensor (the detector's input and output)
NaN == -99999

IsNaN(x) == x = NaN

Abs(x) == IF x < 0 THEN 0 - x ELSE x

Min2(a, b) == IF a < b THEN a ELSE b

Max2(a, b) == IF a > b THEN a ELSE b

\* the sampling rate, in samples per tick
Rate == [n |-> 1, d |-> 2]

\* Python's round() of the fraction n/d (d > 0): to nearest, halves to even
PyRound(n, d) ==
    LET q == n \div d
        r == n % d
    IN  IF 2 * r < d THEN q
        ELSE IF 2 * r > d THEN q + 1
        ELSE IF q % 2 = 0 THEN q ELSE q + 1

\* int(round(t * sampling_rate)) for a time t in ticks
ToSamples(t) == PyRound(t * Rate.n, Rate.d)

\* the code's seq[i] for a 0-based i >= 0
At(seq, i) == seq[i + 1]

\* Python's seq[a:b]: negative bounds count from the end, all bounds clamped
PySlice(seq, a, b) ==
    LET len == Len(seq)
        lo  == IF a < 0 THEN Max2(len + a, 0) ELSE Min2(a, len)
        hi  == IF b < 0 THEN Max2(len + b, 0) ELSE Min2(b, len)
    IN  IF hi <= lo THEN <<>> ELSE SubSeq(seq, lo + 1, hi)

RECURSIVE SumSeq(_)
SumSeq(s) == IF s = <<>> THEN 0 ELSE Head(s) + SumSeq(Tail(s))

RECURSIVE SetToSeq(_)
\* the elements of a finite set of integers, ascending
SetToSeq(S) ==
    IF S = {} THEN <<>>
    ELSE LET m == CHOOSE x \in S : \A y \in S : x <= y
         IN  <<m>> \o SetToSeq(S \ {m})

\* L >= sqrt(R2) for L >= 0 and 0 <= R2 < 2^31, without squaring a large L
GeSqrt(L, R2) == L > 46340 \/ L * L >= R2

(***************************************************************************)
(* src/app/config.py : the configuration dictionary, load_config and       *)
(* __check_config.  A configuration is a function of the paths of its      *)
(* values, and holds at the empty path the set of the paths that are       *)
(* dictionaries; times are in units of 0.1 ms, other numbers in tenths     *)
(***************************************************************************)

\* the path at which a configuration holds the paths of its dictionaries
Dicts == <<>>

\* __create_default_config()
CreateDefaultConfig ==
    (Dicts :> {<<"preprocess">>, <<"preprocess", "early_re_referencing">>, <<"trials">>,
               <<"channels">>, <<"metrics">>, <<"metrics", "cross_proj">>,
               <<"metrics", "waveform">>, <<"n1_detect">>, <<"n1_detect", "std_base">>,
               <<"visualization">>}) @@
    (<<"preprocess", "high_pass">> :> FALSE) @@
    (<<"preprocess", "line_noise_removal">> :> "off") @@
    (<<"preprocess", "early_re_referencing", "enabled">> :> FALSE) @@
    (<<"preprocess", "early_re_referencing", "method">> :> "CAR") @@
    (<<"preprocess", "early_re_referencing", "stim_excl_epoch">> :> <<-100, 10000>>) @@
    (<<"trials", "trial_epoch">> :> <<-10000, 20000>>) @@
    (<<"trials", "out_of_bounds_handling">> :> "first_last_only") @@
    (<<"trials", "baseline_epoch">> :> <<-5000, -1000>>) @@
    (<<"trials", "baseline_norm">> :> "median") @@
    (<<"trials", "concat_bidirectional_pairs">> :> TRUE) @@
    (<<"trials", "minimum_stimpair_trials">> :> 50) @@
    (<<"channels", "types">> :> <<"ECOG", "SEEG", "DBS">>) @@
    (<<"metrics", "cross_proj", "enabled">> :> TRUE) @@
    (<<"metrics", "cross_proj", "epoch">> :> <<120, 900>>) @@
    (<<"metrics", "waveform", "enabled">> :> TRUE) @@
    (<<"metrics", "waveform", "epoch">> :> <<120, 900>>) @@
    (<<"metrics", "waveform", "bandpass">> :> <<100, 300>>) @@
    (<<"n1_detect", "peak_search_epoch">> :> <<0, 5000>>) @@
    (<<"n1_detect", "n1_search_epoch">> :> <<90, 900>>) @@
    (<<"n1_detect", "method">> :> "std_base") @@
    (<<"n1_detect", "std_base", "baseline_epoch">> :> <<-10000, -1000>>) @@
    (<<"n1_detect", "std_base", "baseline_threshold_factor">> :> 34) @@
    (<<"visualization", "x_axis_epoch">> :> <<-2000, 10000>>) @@
    (<<"visualization", "blank_stim_epoch">> :> <<-150, 25>>) @@
    (<<"visualization", "generate_electrode_images">> :> TRUE) @@
    (<<"visualization", "generate_stimpair_images">> :> TRUE) @@
    (<<"visualization", "generate_matrix_images">> :> TRUE)

\* config[level1][level2] = value, or with a third level
Put(config, key, value) ==
    [k \in DOMAIN config \cup {key} |-> IF k = key THEN value ELSE config[k]]

\* path is k or a path into k
IsPrefix(path, k) == Len(path) <= Len(k) /\ SubSeq(k, 1, Len(path)) = path

\* dict.pop(name, None) at a path: the value or the dictionary there goes,
\* with all it holds
Pop(config, path) ==
    [k \in {d \in DOMAIN config : d = Dicts \/ ~IsPrefix(path, d)} |->
        IF k = Dicts THEN {d \in config[Dicts] : ~IsPrefix(path, d)} ELSE config[k]]

\* config[...] = dict() at a path
NewDict(config, path) == [Pop(config, path) EXCEPT ![Dicts] = @ \cup {path}]

\* config['n1_detect'].pop(name, None) for the three method names
PopMethods(config) ==
    Pop(Pop(Pop(config, <<"n1_detect", "std_base">>), <<"n1_detect", "cross_proj">>),
        <<"n1_detect", "waveform">>)

\* the strings of the documents that are not lower case already, with
\* their lower() and upper()
CaseTable ==
    <<(<<"Allow", "allow", "ALLOW">>), (<<"ecog", "ecog", "ECOG">>),
      (<<"SEEG", "seeg", "SEEG">>), (<<"seeg", "seeg", "SEEG">>),
      (<<"Cross_Proj", "cross_proj", "CROSS_PROJ">>),
      (<<"Electrical_Stimulation", "electrical_stimulation", "ELECTRICAL_STIMULATION">>),
      (<<"Good", "good", "GOOD">>)>>

Lower(s) ==
    IF \E i \in 1..Len(CaseTable) : CaseTable[i][1] = s
    THEN CaseTable[CHOOSE i \in 1..Len(CaseTable) : CaseTable[i][1] = s][2]
    ELSE s

Upper(s) ==
    IF \E i \in 1..Len(CaseTable) : CaseTable[i][1] = s
    THEN CaseTable[CHOOSE i \in 1..Len(CaseTable) : CaseTable[i][1] = s][3]
    ELSE s

\* a JSON value: t is bool, num, str, numstr (a string that reads as a
\* number) or list, and of is the type of the elements of a list
JValue(t, of, v) == [t |-> t, of |-> of, v |-> v]

\* bool(value)
PyBool(x) ==
    CASE x.t = "bool" -> x.v
      [] x.t = "num" -> x.v # 0
      [] x.t = "str" -> x.v # ""
      [] x.t = "numstr" -> TRUE
      [] x.t = "list" -> Len(x.v) > 0

\* utils.misc.is_number: ints, floats and numeric strings
IsNumber(x) == x.t \in {"num", "numstr"}

\* utils.misc.is_valid_numeric_range: two numbers
IsValidNumericRange(x) == x.t = "list" /\ x.of = "num" /\ Len(x.v) = 2

\* what a retrieve helper or a check leaves: status is ok, False (the
\* helper returned False) or raised (an exception left load_config)
Outcome(status, config) == [status |-> status, config |-> config]

RetrieveConfigBool(json, config, key) ==
    IF key \in DOMAIN json THEN Outcome("ok", Put(config, key, PyBool(json[key])))
    ELSE Outcome("ok", config)

RetrieveConfigNumber(json, config, key) ==
    IF key \notin DOMAIN json THEN Outcome("ok", config)
    ELSE IF IsNumber(json[key]) THEN Outcome("ok", Put(config, key, json[key].v))
    ELSE Outcome("False", config)

RetrieveConfigRange(json, config, key) ==
    IF key \notin DOMAIN json THEN Outcome("ok", config)
    ELSE IF IsValidNumericRange(json[key])
    THEN Outcome("ok", Put(config, key, <<json[key].v[1], json[key].v[2]>>))
    ELSE Outcome("False", config)

\* options are compared in lower case, the value is stored as written
RetrieveConfigString(json, config, key, options) ==
    IF key \notin DOMAIN json THEN Outcome("ok", config)
    ELSE IF json[key].t = "str" /\ Lower(json[key].v) \in options
    THEN Outcome("ok", Put(config, key, json[key].v))
    ELSE Outcome("False", config)

\* the values are stored in lower case; value.lower() of an element that is
\* no string raises
RetrieveConfigTuple(json, config, key, options) ==
    IF key \notin DOMAIN json THEN Outcome("ok", config)
    ELSE IF json[key].t # "list" THEN Outcome("False", config)
    ELSE IF Len(json[key].v) > 0 /\ json[key].of # "str" THEN Outcome("raised", config)
    ELSE IF \A i \in 1..Len(json[key].v) : Lower(json[key].v[i]) \in options
    THEN Outcome("ok", Put(config, key,
                           [i \in 1..Len(json[key].v) |-> Lower(json[key].v[i])]))
    ELSE Outcome("False", config)

\* minimum_stimpair_trials is a whole number, not negative, then int()
WholeNumber(config, key) ==
    IF config[key] % 10 # 0 \/ config[key] < 0 THEN Outcome("False", config)
    ELSE Outcome("ok", config)

\* at least one channel type, each then in upper case
UpperTypes(config, key) ==
    IF Len(config[key]) = 0 THEN Outcome("False", config)
    ELSE Outcome("ok", Put(config, key, [i \in 1..Len(config[key]) |-> Upper(config[key][i])]))

Step(kind, key, options, when) == [kind |-> kind, key |-> key, options |-> options, when |-> when]

\* the settings in the order load_config retrieves them; a step with a
\* method in when is taken under that n1_detect method only
LoadSteps ==
    <<Step("bool", <<"preprocess", "high_pass">>, {}, ""),
      Step("range", <<"trials", "trial_epoch">>, {}, ""),
      Step("string", <<"trials", "out_of_bounds_handling">>, {"error", "first_last_only", "allow"}, ""),
      Step("lower", <<"trials", "out_of_bounds_handling">>, {}, ""),
      Step("range", <<"trials", "baseline_epoch">>, {}, ""),
      Step("string", <<"trials", "baseline_norm">>, {"median", "mean", "none"}, ""),
      Step("lower", <<"trials", "baseline_norm">>, {}, ""),
      Step("bool", <<"trials", "concat_bidirectional_pairs">>, {}, ""),
      Step("number", <<"trials", "minimum_stimpair_trials">>, {}, ""),
      Step("whole", <<"trials", "minimum_stimpair_trials">>, {}, ""),
      Step("tuple", <<"channels", "types">>,
           {"eeg", "ecog", "seeg", "dbs", "veog", "heog", "eog", "ecg", "emg", "trig",
            "audio", "pd", "eyegaze", "pupil", "misc", "sysclock", "adc", "dac", "ref",
            "other"}, ""),
      Step("upper", <<"channels", "types">>, {}, ""),
      Step("bool", <<"metrics", "cross_proj", "enabled">>, {}, ""),
      Step("range", <<"metrics", "cross_proj", "epoch">>, {}, ""),
      Step("bool", <<"metrics", "waveform", "enabled">>, {}, ""),
      Step("range", <<"metrics", "waveform", "epoch">>, {}, ""),
      Step("range", <<"metrics", "waveform", "bandpass">>, {}, ""),
      Step("range", <<"n1_detect", "peak_search_epoch">>, {}, ""),
      Step("range", <<"n1_detect", "n1_search_epoch">>, {}, ""),
      Step("string", <<"n1_detect", "method">>, {"std_base", "cross_proj", "waveform"}, ""),
      Step("pop", <<"n1_detect", "method">>, {}, ""),
      Step("dict", <<"n1_detect", "std_base">>, {}, "std_base"),
      Step("range", <<"n1_detect", "std_base", "baseline_epoch">>, {}, "std_base"),
      Step("number", <<"n1_detect", "std_base", "baseline_threshold_factor">>, {}, "std_base"),
      Step("dict", <<"n1_detect", "cross_proj">>, {}, "cross_proj"),
      Step("number", <<"n1_detect", "cross_proj", "threshold">>, {}, "cross_proj"),
      Step("dict", <<"n1_detect", "waveform">>, {}, "waveform"),
      Step("number", <<"n1_detect", "waveform", "threshold">>, {}, "waveform"),
      Step("range", <<"visualization", "x_axis_epoch">>, {}, ""),
      Step("range", <<"visualization", "blank_stim_epoch">>, {}, ""),
      Step("bool", <<"visualization", "generate_electrode_images">>, {}, ""),
      Step("bool", <<"visualization", "generate_stimpair_images">>, {}, ""),
      Step("bool", <<"visualization", "generate_matrix_images">>, {}, "")>>

\* one step of load_config on the dictionary it is building
Retrieve(json, config, step) ==
    IF step.when # "" /\ config[<<"n1_detect", "method">>] # step.when THEN Outcome("ok", config)
    ELSE CASE step.kind = "bool" -> RetrieveConfigBool(json, config, step.key)
           [] step.kind = "number" -> RetrieveConfigNumber(json, config, step.key)
           [] step.kind = "range" -> RetrieveConfigRange(json, config, step.key)
           [] step.kind = "string" -> RetrieveConfigString(json, config, step.key, step.options)
           [] step.kind = "tuple" -> RetrieveConfigTuple(json, config, step.key, step.options)
           [] step.kind = "lower" -> Outcome("ok", Put(config, step.key, Lower(config[step.key])))
           [] step.kind = "whole" -> WholeNumber(config, step.key)
           [] step.kind = "upper" -> UpperTypes(config, step.key)
           [] step.kind = "pop" -> Outcome("ok", PopMethods(config))
           [] step.kind = "dict" -> Outcome("ok", NewDict(config, step.key))

\* the steps from step i on, until one does not succeed
RECURSIVE RetrieveSettings(_, _, _)
RetrieveSettings(json, st, i) ==
    IF st.status # "ok" \/ i > Len(LoadSteps) THEN st
    ELSE RetrieveSettings(json, Retrieve(json, st.config, LoadSteps[i]), i + 1)

\* the checks of __check_config in order, with the n1_detect method under
\* which a check is made
ConfigChecks ==
    <<Step("order", <<"trials", "trial_epoch">>, {}, ""),
      Step("order", <<"trials", "baseline_epoch">>, {}, ""),
      Step("order", <<"metrics", "cross_proj", "epoch">>, {}, ""),
      Step("order", <<"metrics", "waveform", "epoch">>, {}, ""),
      Step("order", <<"n1_detect", "peak_search_epoch">>, {}, ""),
      Step("order", <<"n1_detect", "n1_search_epoch">>, {}, ""),
      Step("order", <<"n1_detect", "std_base", "baseline_epoch">>, {}, "std_base"),
      Step("order", <<"visualization", "x_axis_epoch">>, {}, ""),
      Step("order", <<"visualization", "blank_stim_epoch">>, {}, ""),
      Step("within", <<"metrics", "cross_proj", "epoch">>, {}, ""),
      Step("within", <<"metrics", "waveform", "epoch">>, {}, ""),
      Step("within", <<"n1_detect", "peak_search_epoch">>, {}, ""),
      Step("within", <<"n1_detect", "n1_search_epoch">>, {}, ""),
      Step("within", <<"n1_detect", "std_base", "baseline_epoch">>, {}, "std_base"),
      Step("within", <<"visualization", "x_axis_epoch">>, {}, ""),
      Step("within", <<"visualization", "blank_stim_epoch">>, {}, ""),
      Step("before_onset", <<"trials", "trial_epoch">>, {}, ""),
      Step("after_onset", <<"metrics", "cross_proj", "epoch">>, {}, ""),
      Step("after_onset", <<"metrics", "waveform", "epoch">>, {}, ""),
      Step("after_onset", <<"n1_detect", "peak_search_epoch">>, {}, ""),
      Step("after_onset", <<"n1_detect", "n1_search_epoch">>, {}, ""),
      Step("positive", <<"n1_detect", "std_base", "baseline_threshold_factor">>, {}, "std_base"),
      Step("positive", <<"n1_detect", "cross_proj", "threshold">>, {}, "cross_proj"),
      Step("positive", <<"n1_detect", "waveform", "threshold">>, {}, "waveform"),
      Step("bandpass", <<"metrics", "waveform", "bandpass">>, {}, "")>>

\* one check passes; the three-level check_number_positive tests < 0
CheckPasses(config, check) ==
    CASE check.kind = "order" -> config[check.key][1] < config[check.key][2]
      [] check.kind = "within" ->
            /\ ~(config[check.key][1] < config[<<"trials", "trial_epoch">>][1])
            /\ ~(config[check.key][2] > config[<<"trials", "trial_epoch">>][2])
      [] check.kind = "before_onset" -> ~(config[check.key][1] >= 0)
      [] check.kind = "after_onset" -> ~(config[check.key][1] < 0)
      [] check.kind = "positive" -> ~(config[check.key] < 0)
      [] check.kind = "bandpass" ->
            /\ config[check.key][1] > 0
            /\ config[check.key][2] > 0
            /\ config[check.key][1] < config[check.key][2]

\* __check_config(config) from check i on: ok, False, or raised for the
\* KeyError of a value that load_config popped and the document did not give
RECURSIVE CheckConfig(_, _)
CheckConfig(config, i) ==
    IF i > Len(ConfigChecks) THEN "ok"
    ELSE IF ConfigChecks[i].when # "" /\ config[<<"n1_detect", "method">>] # ConfigChecks[i].when
    THEN CheckConfig(config, i + 1)
    ELSE IF ConfigChecks[i].key \notin DOMAIN config THEN "raised"
    ELSE IF CheckPasses(config, ConfigChecks[i]) THEN CheckConfig(config, i + 1)
    ELSE "False"

\* the sanity checks follow the retrieval
Checked(st) == IF st.status # "ok" THEN st ELSE Outcome(CheckConfig(st.config, 1), st.config)

\* load_config(filepath) up to the assignment of _config: what it returns
\* or raises and the dictionary it built
LoadConfigOutcome(file) ==
    IF file.state # "json" THEN Outcome("False", CreateDefaultConfig)
    ELSE Checked(RetrieveSettings(file.doc, Outcome("ok", CreateDefaultConfig), 1))

\* _config = config whatever the outcome
ReplacedAnyway(config, outcome) == outcome.config

\* _config = config, reached when nothing returned False or raised
Replaced(config, outcome) == IF outcome.status = "ok" THEN outcome.config ELSE config

\* a member of an object of the text write_config builds: its path, the
\* object it is in, how its value is rendered (object for a group) and
\* whether a comma follows it
Member(path, object, kind, comma) ==
    [path |-> path, object |-> object, kind |-> kind, comma |-> comma]

\* config_str, member by member in the order written; the group of the
\* method follows "method" only for the three method names
ConfigStr(config) ==
    <<Member(<<"preprocess">>, <<>>, "object", TRUE),
      Member(<<"preprocess", "high_pass">>, <<"preprocess">>, "bool", TRUE),
      Member(<<"preprocess", "line_noise_removal">>, <<"preprocess">>, "string", FALSE),
      Member(<<"preprocess", "early_re_referencing">>, <<"preprocess">>, "object", TRUE),
      Member(<<"preprocess", "early_re_referencing", "enabled">>, <<"preprocess", "early_re_referencing">>, "bool", TRUE),
      Member(<<"preprocess", "early_re_referencing", "method">>, <<"preprocess", "early_re_referencing">>, "string", TRUE),
      Member(<<"preprocess", "early_re_referencing", "stim_excl_epoch">>, <<"preprocess", "early_re_referencing">>, "range", FALSE),
      Member(<<"trials">>, <<>>, "object", TRUE),
      Member(<<"trials", "trial_epoch">>, <<"trials">>, "range", TRUE),
      Member(<<"trials", "out_of_bounds_handling">>, <<"trials">>, "string", TRUE),
      Member(<<"trials", "baseline_epoch">>, <<"trials">>, "range", TRUE),
      Member(<<"trials", "baseline_norm">>, <<"trials">>, "string", TRUE),
      Member(<<"trials", "concat_bidirectional_pairs">>, <<"trials">>, "bool", TRUE),
      Member(<<"trials", "minimum_stimpair_trials">>, <<"trials">>, "number", FALSE),
      Member(<<"channels">>, <<>>, "object", TRUE),
      Member(<<"channels", "types">>, <<"channels">>, "strings", FALSE),
      Member(<<"metrics">>, <<>>, "object", TRUE),
      Member(<<"metrics", "cross_proj">>, <<"metrics">>, "object", TRUE),
      Member(<<"metrics", "cross_proj", "enabled">>, <<"metrics", "cross_proj">>, "bool", TRUE),
      Member(<<"metrics", "cross_proj", "epoch">>, <<"metrics", "cross_proj">>, "range", FALSE),
      Member(<<"metrics", "waveform">>, <<"metrics">>, "object", FALSE),
      Member(<<"metrics", "waveform", "enabled">>, <<"metrics", "waveform">>, "bool", TRUE),
      Member(<<"metrics", "waveform", "epoch">>, <<"metrics", "waveform">>, "range", TRUE),
      Member(<<"metrics", "waveform", "bandpass">>, <<"metrics", "waveform">>, "range", FALSE),
      Member(<<"n1_detect">>, <<>>, "object", TRUE),
      Member(<<"n1_detect", "peak_search_epoch">>, <<"n1_detect">>, "range", TRUE),
      Member(<<"n1_detect", "n1_search_epoch">>, <<"n1_detect">>, "range", TRUE),
      Member(<<"n1_detect", "method">>, <<"n1_detect">>, "string", TRUE)>>
    \o (IF config[<<"n1_detect", "method">>] = "std_base"
        THEN <<Member(<<"n1_detect", "std_base">>, <<"n1_detect">>, "object", FALSE),
               Member(<<"n1_detect", "std_base", "baseline_epoch">>, <<"n1_detect", "std_base">>, "range", TRUE),
               Member(<<"n1_detect", "std_base", "baseline_threshold_factor">>, <<"n1_detect", "std_base">>, "number", FALSE)>>
        ELSE IF config[<<"n1_detect", "method">>] = "cross_proj"
        THEN <<Member(<<"n1_detect", "cross_proj">>, <<"n1_detect">>, "object", FALSE),
               Member(<<"n1_detect", "cross_proj", "threshold">>, <<"n1_detect", "cross_proj">>, "number", FALSE)>>
        ELSE IF config[<<"n1_detect", "method">>] = "waveform"
        THEN <<Member(<<"n1_detect", "waveform">>, <<"n1_detect">>, "object", FALSE),
               Member(<<"n1_detect", "waveform", "threshold">>, <<"n1_detect", "waveform">>, "number", FALSE)>>
        ELSE <<>>)
    \o <<Member(<<"visualization">>, <<>>, "object", FALSE),
         Member(<<"visualization", "x_axis_epoch">>, <<"visualization">>, "range", TRUE),
         Member(<<"visualization", "blank_stim_epoch">>, <<"visualization">>, "range", TRUE),
         Member(<<"visualization", "generate_electrode_images">>, <<"visualization">>, "bool", TRUE),
         Member(<<"visualization", "generate_stimpair_images">>, <<"visualization">>, "bool", TRUE),
         Member(<<"visualization", "generate_matrix_images">>, <<"visualization">>, "bool", FALSE)>>

\* json.load accepts the text: in every object a comma follows each member
\* but the last, and none follows the last
JsonSyntaxValid(members) ==
    \A i \in 1..Len(members) :
        members[i].comma <=> \E j \in (i + 1)..Len(members) :
                                  members[j].object = members[i].object

\* the JSON value a member's text reads as: 'true'/'false' by truth value,
\* a quoted string, json.dumps of the list of types, str() of a number and
\* numbers_to_padded_string of a range
WrittenValue(kind, value) ==
    CASE kind = "bool" -> JValue("bool", "", value)
      [] kind = "string" -> JValue("str", "", value)
      [] kind = "strings" -> JValue("list", "str", value)
      [] kind = "number" -> JValue("num", "", value)
      [] kind = "range" -> JValue("list", "num", value)

\* the paths of the values write_config reads
WrittenLeaves(members) ==
    {members[i].path : i \in {k \in 1..Len(members) : members[k].kind # "object"}}

\* the document of the members' values
WrittenDoc(config, members) ==
    [path \in WrittenLeaves(members) |->
        WrittenValue(members[CHOOSE i \in 1..Len(members) : members[i].path = path].kind,
                     config[path])]

\* write_config(filepath): the file it leaves, or raised for the KeyError of
\* a value that is not in the configuration (nothing is written then)
WriteConfigFile(config) ==
    IF <<"n1_detect", "method">> \notin DOMAIN config
       \/ ~(WrittenLeaves(ConfigStr(config)) \subseteq DOMAIN config)
    THEN [state |-> "raised", doc |-> <<>>]
    ELSE IF JsonSyntaxValid(ConfigStr(config))
    THEN [state |-> "json", doc |-> WrittenDoc(config, ConfigStr(config))]
    ELSE [state |-> "malformed", doc |-> <<>>]

\* what get returns or raises
Got(status, value) == [status |-> status, value |-> value]

\* get(level1, level2, level3): indexing a dictionary that lacks the key is
\* a KeyError, indexing a value that is not a dictionary a TypeError; a
\* dictionary is returned as the values it holds
ConfigGet(config, path) ==
    IF <<path[1]>> \notin config[Dicts] THEN Got("KeyError", <<>>)
    ELSE IF Len(path) = 3 /\ SubSeq(path, 1, 2) \in DOMAIN config THEN Got("TypeError", <<>>)
    ELSE IF Len(path) = 3 /\ SubSeq(path, 1, 2) \notin config[Dicts] THEN Got("KeyError", <<>>)
    ELSE IF path \in DOMAIN config THEN Got("ok", config[path])
    ELSE IF path \in config[Dicts]
    THEN Got("ok", [k \in {d \in DOMAIN config : IsPrefix(path, d)} |-> config[k]])
    ELSE Got("KeyError", <<>>)

\* if not level1 in _config: _config[level1] = dict()
WithLevel1(config, path) ==
    IF <<path[1]>> \in config[Dicts] THEN config ELSE NewDict(config, <<path[1]>>)

\* set(value, level1, level2, level3): None, or the TypeError of assigning
\* into a value that is not a dictionary; a level2 that is missing becomes
\* a dictionary first
ConfigSet(config, value, path) ==
    IF Len(path) = 2
    THEN Outcome("None", Put(Pop(WithLevel1(config, path), path), path, value))
    ELSE IF SubSeq(path, 1, 2) \in DOMAIN config
    THEN Outcome("TypeError", WithLevel1(config, path))
    ELSE IF SubSeq(path, 1, 2) \in config[Dicts]
    THEN Outcome("None", Put(config, path, value))
    ELSE Outcome("None", Put(NewDict(WithLevel1(config, path), SubSeq(path, 1, 2)), path, value))

\* rem(level1, level2, level3): None, the KeyError of a dictionary that is
\* not there, or the AttributeError of a value that has no pop
ConfigRem(config, path) ==
    IF <<path[1]>> \notin config[Dicts] THEN Outcome("KeyError", config)
    ELSE IF Len(path) = 2 THEN Outcome("None", Pop(config, path))
    ELSE IF SubSeq(path, 1, 2) \in config[Dicts] THEN Outcome("None", Pop(config, path))
    ELSE IF SubSeq(path, 1, 2) \in DOMAIN config THEN Outcome("AttributeError", config)
    ELSE Outcome("KeyError", config)

(***************************************************************************)
(* src/main_run.py : the method argument and the metrics of the method     *)
(***************************************************************************)

\* the defaults of the detection methods, in units of 0.1 ms and in tenths
CONFIG_N1DETECT_STD_BASE_BASELINE_EPOCH_DEFAULT == <<-10000, -1000>>

CONFIG_N1DETECT_STD_BASE_BASELINE_THRESHOLD_FACTOR == 34

CONFIG_N1DETECT_CROSS_PROJ_THRESHOLD == 35

CONFIG_N1DETECT_WAVEFORM_PROJ_THRESHOLD == 10000

\* cfg_rem(...) after the calls before it, unless one of them raised
AndRem(st, path) == IF st.status # "None" THEN st ELSE ConfigRem(st.config, path)

\* cfg_set(value, ...) after the calls before it, unless one of them raised
AndSet(st, value, path) == IF st.status # "None" THEN st ELSE ConfigSet(st.config, value, path)

\* the handling of the method argument without its cfg_rem calls
MethodsKept(config) == Outcome("None", config)

\* the three cfg_rem calls that open the handling of the method argument
MethodsRemoved(config) ==
    AndRem(AndRem(AndRem(Outcome("None", config), <<"n1_detect", "std_base">>),
                  <<"n1_detect", "cross_proj">>),
           <<"n1_detect", "waveform">>)

\* if args.method: the method and its defaults replace what the
\* configuration held for any of the methods; another name is exit(1)
MethodArgument(config, method) ==
    CASE method = "" -> Outcome("None", config)
      [] method = "std_base" ->
            AndSet(AndSet(AndSet(MethodsRemoved(config), "std_base", <<"n1_detect", "method">>),
                          CONFIG_N1DETECT_STD_BASE_BASELINE_EPOCH_DEFAULT,
                          <<"n1_detect", "std_base", "baseline_epoch">>),
                   CONFIG_N1DETECT_STD_BASE_BASELINE_THRESHOLD_FACTOR,
                   <<"n1_detect", "std_base", "baseline_threshold_factor">>)
      [] method = "cross_proj" ->
            AndSet(AndSet(MethodsRemoved(config), "cross_proj", <<"n1_detect", "method">>),
                   CONFIG_N1DETECT_CROSS_PROJ_THRESHOLD, <<"n1_detect", "cross_proj", "threshold">>)
      [] method = "waveform" ->
            AndSet(AndSet(MethodsRemoved(config), "waveform", <<"n1_detect", "method">>),
                   CONFIG_N1DETECT_WAVEFORM_PROJ_THRESHOLD, <<"n1_detect", "waveform", "threshold">>)
      [] OTHER -> IF MethodsRemoved(config).status # "None" THEN MethodsRemoved(config)
                  ELSE Outcome("exit(1)", MethodsRemoved(config).config)

\* cfg('n1_detect', 'method') == metric and not cfg('metrics', metric, 'enabled')
MetricIsOff(config, metric) ==
    /\ ConfigGet(config, <<"n1_detect", "method">>).value = metric
    /\ ~ConfigGet(config, <<"metrics", metric, "enabled">>).value

\* the metrics whose warning is logged
MetricsWarned(st) ==
    IF st.status # "None" THEN {}
    ELSE {metric \in {"cross_proj", "waveform"} : MetricIsOff(st.config, metric)}

\* if a metric is used for detection, enable it
EnableMetric(st, metric) ==
    IF st.status # "None" THEN st
    ELSE IF ConfigGet(st.config, <<"n1_detect", "method">>).status # "ok"
    THEN Outcome(ConfigGet(st.config, <<"n1_detect", "method">>).status, st.config)
    ELSE IF ConfigGet(st.config, <<"n1_detect", "method">>).value # metric THEN st
    ELSE IF ConfigGet(st.config, <<"metrics", metric, "enabled">>).status # "ok"
    THEN Outcome(ConfigGet(st.config, <<"metrics", metric, "enabled">>).status, st.config)
    ELSE IF MetricIsOff(st.config, metric)
    THEN ConfigSet(st.config, TRUE, <<"metrics", metric, "enabled">>)
    ELSE st

\* the configuration the run goes on with
Configured(config, method) ==
    EnableMetric(EnableMetric(MethodArgument(config, method), "cross_proj"), "waveform")

\* no command is running
RunIdle == [phase |-> "idle"]

\* the module after import, no call in progress
CfIdle(config) == [phase |-> "idle", config |-> config, filepath |-> "", result |-> ""]

(***************************************************************************)
(* src/app/detection.py : ieeg_detect_n1                                   *)
(***************************************************************************)

\* abs(neg_mags[max_ind]) > 3000: the saturation ceiling
SaturationLimit == 3000

\* baseline_std < 50: the floor of the baseline standard deviation
MinBaselineStd == 50

\* the number of non-NaN samples, their sum and their sum of squares
NumValid(s) == Cardinality({i \in 1..Len(s) : ~IsNaN(s[i])})

SumValid(s) == SumSeq([i \in 1..Len(s) |-> IF IsNaN(s[i]) THEN 0 ELSE s[i]])

SumSqValid(s) == SumSeq([i \in 1..Len(s) |-> IF IsNaN(s[i]) THEN 0 ELSE s[i] * s[i]])

\* n^2 times the population variance np.nanstd(s)^2 of the n non-NaN samples
VarTimesN2(s) == NumValid(s) * SumSqValid(s) - SumValid(s) * SumValid(s)

\* the ceiling taken one too high
SaturatedOffByOne(mag) == Abs(mag) > SaturationLimit + 1

\* abs(neg_mags[max_ind]) > 3000, line 194
Saturated(mag) == Abs(mag) > SaturationLimit

\* np.nanstd(s) < 50
StdBelowFloor(s) == VarTimesN2(s) < MinBaselineStd * MinBaselineStd * NumValid(s) * NumValid(s)

\* the threshold without the floor of 50 on the standard deviation
StdBaseAcceptsNoFloor(mag, factor, baseline) ==
    GeSqrt(factor.d * Abs(mag) * NumValid(baseline),
           factor.n * factor.n * VarTimesN2(baseline))

\* abs(mag) >= baseline_threshold_factor * abs(baseline_std), the std floored at 50
StdBaseAccepts(mag, factor, baseline) ==
    IF StdBelowFloor(baseline)
    THEN factor.d * Abs(mag) >= factor.n * MinBaselineStd
    ELSE GeSqrt(factor.d * Abs(mag) * NumValid(baseline),
                factor.n * factor.n * VarTimesN2(baseline))

\* signal[np.isnan(signal)] = 0
NanToZero(s) == [i \in 1..Len(s) |-> IF IsNaN(s[i]) THEN 0 ELSE s[i]]

AllNaN(s) == \A i \in 1..Len(s) : IsNaN(s[i])

\* The positions peak_finder may report for extrema = -1 with endpoints
\* included: the 0-based positions of the local minima of the signal.
TroughPositions(signal) ==
    {p \in 0..(Len(signal) - 1) :
        /\ (p > 0 => At(signal, p) <= At(signal, p - 1))
        /\ (p < Len(signal) - 1 => At(signal, p) <= At(signal, p + 1))}

\* peak_finder(signal, ...): positions (ascending) and signed magnitudes
PeakFinder(signal, found) ==
    LET inds == SetToSeq(found)
    IN  [i \in 1..Len(inds) |-> [ind |-> inds[i], mag |-> At(signal, inds[i])]]

\* the last of the peaks of largest |magnitude| instead of the first
MaxIndLast(peaks) ==
    LET best == CHOOSE m \in {Abs(peaks[i].mag) : i \in 1..Len(peaks)} :
                    \A i \in 1..Len(peaks) : Abs(peaks[i].mag) <= m
    IN  CHOOSE i \in 1..Len(peaks) :
            /\ Abs(peaks[i].mag) = best
            /\ \A j \in (i + 1)..Len(peaks) : Abs(peaks[j].mag) # best

\* np.where(abs(neg_mags) == np.max(abs(neg_mags)))[0][0], 1-based
MaxInd(peaks) ==
    LET best == CHOOSE m \in {Abs(peaks[i].mag) : i \in 1..Len(peaks)} :
                    \A i \in 1..Len(peaks) : Abs(peaks[i].mag) <= m
    IN  CHOOSE i \in 1..Len(peaks) :
            /\ Abs(peaks[i].mag) = best
            /\ \A j \in 1..(i - 1) : Abs(peaks[j].mag) # best

NoPeak == [has |-> FALSE, ind |-> NaN, mag |-> NaN]

Undetected == [ind |-> NaN, amp |-> NaN]

\* what one iteration of the loop leaves behind: the cell (the samples of the
\* search window are a view into data), the selected peak, the recorded
\* result and whether the iteration raised
CellOut(cell, sel, res, raised) == [cell |-> cell, sel |-> sel, res |-> res, raised |-> raised]

Selected(peak) == [has |-> TRUE, ind |-> peak.ind, mag |-> peak.mag]

Hit(peak) == [ind |-> peak.ind, amp |-> peak.mag]

\* signal[np.isnan(signal)] = 0 on the view data[iElec, iPair, start + 1:end]
WriteZeros(cell, w) ==
    [i \in 1..Len(cell) |->
        IF i - 1 >= w.peak_start + 1 /\ i - 1 < w.peak_end /\ IsNaN(cell[i])
        THEN 0 ELSE cell[i]]

\* the peak on the first sample is no peak (lines 167-169)
DropFirst(peaks) == IF Len(peaks) > 0 /\ peaks[1].ind = 0 THEN Tail(peaks) ELSE peaks

\* neg_inds = neg_inds + peak_search_start_sample (line 176)
ShiftPeaks(peaks, w) ==
    [i \in 1..Len(peaks) |-> [ind |-> peaks[i].ind + w.peak_start, mag |-> peaks[i].mag]]

\* the peaks inside the N1 search range, both ends included (lines 179-184)
InRange(peaks, w) ==
    LET keep == SetToSeq({i \in 1..Len(peaks) :
                    peaks[i].ind >= w.n1_start /\ peaks[i].ind <= w.n1_end})
    IN  [i \in 1..Len(keep) |-> peaks[keep[i]]]

\* lines 189-237: sign, saturation and the criterion of the method
ClassifyPeak(written, peak, w, c) ==
    IF peak.mag > 0 THEN CellOut(written, Selected(peak), Undetected, FALSE)
    ELSE IF Saturated(peak.mag) THEN CellOut(written, Selected(peak), Undetected, FALSE)
    ELSE IF c.method = "cross_proj"
         THEN IF ~c.cross.ok
              THEN CellOut(written, Selected(peak), Undetected, TRUE)
              ELSE IF c.cross.v * c.cross_proj_threshold.d > c.cross_proj_threshold.n
                   THEN CellOut(written, Selected(peak), Hit(peak), FALSE)
                   ELSE CellOut(written, Selected(peak), Undetected, FALSE)
    ELSE IF c.method = "waveform"
         THEN IF ~c.wave.ok
              THEN CellOut(written, Selected(peak), Undetected, TRUE)
              ELSE IF c.wave.v * c.waveform_threshold.d > c.waveform_threshold.n
                   THEN CellOut(written, Selected(peak), Hit(peak), FALSE)
                   ELSE CellOut(written, Selected(peak), Undetected, FALSE)
    ELSE IF AllNaN(PySlice(written, w.base_start, w.base_end))
         THEN CellOut(written, Selected(peak), Undetected, FALSE)
    ELSE IF StdBaseAccepts(peak.mag, c.baseline_threshold_factor,
                           PySlice(written, w.base_start, w.base_end))
         THEN CellOut(written, Selected(peak), Hit(peak), FALSE)
         ELSE CellOut(written, Selected(peak), Undetected, FALSE)

\* lines 172-187: no peak left, or the first peak of largest |magnitude|
SelectPeak(written, inrange, w, c) ==
    IF Len(inrange) = 0 THEN CellOut(written, NoPeak, Undetected, FALSE)
    ELSE ClassifyPeak(written, inrange[MaxInd(inrange)], w, c)

\* the peak finder on the search window, reporting the troughs at the
\* positions in found
FindPeaks(signal, found) == PeakFinder(signal, found \cap TroughPositions(signal))

\* One iteration of the electrode x stimulation-pair loop (lines 148-237).
\*   cell   : data[iElec, iPair, :]
\*   found  : the positions the peak finder reports for this cell
\*   w      : the sample windows of the call
\*   c      : the configuration and the two metric values of this cell
\*            (ok is FALSE where indexing the metric tensor raises)
DetectCell(cell, found, w, c) ==
    IF AllNaN(PySlice(cell, w.peak_start + 1, w.peak_end))
    THEN CellOut(cell, NoPeak, Undetected, FALSE)
    ELSE SelectPeak(WriteZeros(cell, w),
                    InRange(ShiftPeaks(DropFirst(
                        FindPeaks(NanToZero(PySlice(cell, w.peak_start + 1, w.peak_end)),
                                  found)), w), w),
                    w, c)

\* the sample windows of a call (lines 94-109 and 120-122)
DetWindows(c, stim_onset_index) ==
    [peak_start |-> ToSamples(c.peak_search_epoch[1]) + stim_onset_index,
     peak_end   |-> ToSamples(c.peak_search_epoch[2]) + stim_onset_index,
     n1_start   |-> ToSamples(c.n1_search_epoch[1]) + stim_onset_index,
     n1_end     |-> ToSamples(c.n1_search_epoch[2]) + stim_onset_index,
     base_start |-> ToSamples(c.baseline_epoch[1]) + stim_onset_index,
     base_end   |-> ToSamples(c.baseline_epoch[2]) + stim_onset_index]

\* a metric argument: None, or a (rows x cols) tensor
NoMetric == [none |-> TRUE, rows |-> 0, cols |-> 0, v |-> <<>>]

\* m[iElec, iPair] for 1-based iElec, iPair; ok is FALSE where numpy raises
MetricAt(m, e, p) ==
    IF m.none \/ e > m.rows \/ p > m.cols
    THEN [ok |-> FALSE, v |-> 0]
    ELSE [ok |-> TRUE, v |-> m.v[e][p]]

\* not m.shape == n1_peak_indices.shape
ShapeDiffers(m, data) == m.rows # Len(data) \/ m.cols # Len(data[1])

\* the metric tensor the cross_proj branch of the input check looks at (line 135)
CrossProjCheckedMetric(cross_proj_metrics, waveform_metrics) == waveform_metrics

\* the input check of the selected method (lines 117-140): TRUE when the call
\* returns (None, None)
MethodInputFails(method, data, cross_proj_metrics, waveform_metrics) ==
    IF method = "waveform"
    THEN waveform_metrics.none \/ ShapeDiffers(waveform_metrics, data)
    ELSE IF method = "cross_proj"
    THEN LET m == CrossProjCheckedMetric(cross_proj_metrics, waveform_metrics)
         IN  m.none \/ ShapeDiffers(m, data)
    ELSE FALSE

\* the cells in loop order: electrodes outer, stimulation-pairs inner
CellOrder(data, e, p) == (e - 1) * Len(data[1]) + p

\* the configuration and the metric values one cell is classified with
CellConfig(c, cross_proj_metrics, waveform_metrics, e, p) ==
    [method |-> c.method,
     baseline_threshold_factor |-> c.baseline_threshold_factor,
     cross_proj_threshold |-> c.cross_proj_threshold,
     waveform_threshold |-> c.waveform_threshold,
     cross |-> MetricAt(cross_proj_metrics, e, p),
     wave  |-> MetricAt(waveform_metrics, e, p)]

\* the call returns (None, None)
DetNone(data, w) ==
    [status |-> "none", w |-> w, data |-> data,
     sel |-> [e \in 1..Len(data) |-> [p \in 1..Len(data[1]) |-> NoPeak]],
     res |-> [e \in 1..Len(data) |-> [p \in 1..Len(data[1]) |-> Undetected]]]

\* the loop stops at the first cell (in loop order) that raises
FirstRaising(data, r) ==
    LET raising == {CellOrder(data, e, p) : <<e, p>> \in
                        {x \in (1..Len(data)) \X (1..Len(data[1])) : r[x[1]][x[2]].raised}}
    IN  IF raising = {} THEN 0
        ELSE CHOOSE k \in raising : \A j \in raising : k <= j

\* the outcome of the loop over r, the per-cell outcomes, stopped at cell
\* number first when first > 0
LoopOutcome(data, w, r, first) ==
    IF first > 0
    THEN [status |-> "raised", w |-> w,
          data |-> [e \in 1..Len(data) |-> [p \in 1..Len(data[1]) |->
                      IF CellOrder(data, e, p) <= first THEN r[e][p].cell ELSE data[e][p]]],
          sel  |-> [e \in 1..Len(data) |-> [p \in 1..Len(data[1]) |->
                      IF CellOrder(data, e, p) <= first THEN r[e][p].sel ELSE NoPeak]],
          res  |-> [e \in 1..Len(data) |-> [p \in 1..Len(data[1]) |-> Undetected]]]
    ELSE [status |-> "ok", w |-> w,
          data |-> [e \in 1..Len(data) |-> [p \in 1..Len(data[1]) |-> r[e][p].cell]],
          sel  |-> [e \in 1..Len(data) |-> [p \in 1..Len(data[1]) |-> r[e][p].sel]],
          res  |-> [e \in 1..Len(data) |-> [p \in 1..Len(data[1]) |-> r[e][p].res]]]

DetectLoop(data, w, r) == LoopOutcome(data, w, r, FirstRaising(data, r))

\* the call once its sample windows w are known (lines 97-240)
DetectIn(data, w, c, cross_proj_metrics, waveform_metrics, found) ==
    IF w.peak_end < w.peak_start THEN DetNone(data, w)
    ELSE IF w.peak_end > Len(data[1][1]) THEN DetNone(data, w)
    ELSE IF w.n1_end < w.n1_start THEN DetNone(data, w)
    ELSE IF MethodInputFails(c.method, data, cross_proj_metrics, waveform_metrics)
         THEN DetNone(data, w)
    ELSE DetectLoop(data, w,
            [e \in 1..Len(data) |-> [p \in 1..Len(data[1]) |->
                DetectCell(data[e][p], found, w,
                           CellConfig(c, cross_proj_metrics, waveform_metrics, e, p))]])

\* ieeg_detect_n1(data, stim_onset_index, sampling_rate, cross_proj_metrics,
\* waveform_metrics) under configuration c, the peak finder reporting the
\* troughs at the positions in found.  status is "ok" (two arrays returned),
\* "none" (None, None returned) or "raised" (an exception left the loop).
IeegDetectN1(data, stim_onset_index, c, cross_proj_metrics, waveform_metrics, found) ==
    DetectIn(data, DetWindows(c, stim_onset_index), c, cross_proj_metrics,
             waveform_metrics, found)

(***************************************************************************)
(* The calls of ieeg_detect_n1 that are explored                           *)
(***************************************************************************)

\* the number of samples of one averaged epoch
NumEpochSamples == 6

\* the electrodes (rows) of the averaged tensor
Elecs == 1..2

NumElec == Cardinality(Elecs)

\* one stimulation-pair condition
Pairs == 1..1

\* config['trials']['trial_epoch'] in ticks: two samples before the onset
DetTrialEpoch == <<-4, 2 * NumEpochSamples - 4>>

\* onset_sample = int(round(abs(trial_epoch[0] * sampling_rate)))
OnsetSample(trial_epoch) == ToSamples(Abs(trial_epoch[1]))

\* the values a sample takes after the onset
ResponseValues == {171, -169, -171, -3000, -3001}

\* the two pre-onset samples: missing, standard deviation 10, standard deviation 60
BaselineSegments == {<<NaN, NaN>>, <<-10, 10>>, <<-60, 60>>}

ResponseSegments == [1..(NumEpochSamples - 3) -> ResponseValues]

\* a measured channel that was stimulated, and one with a clear response
BackgroundCells ==
    {[i \in 1..NumEpochSamples |-> NaN],
     [i \in 1..NumEpochSamples |-> IF i = 5 THEN -180 ELSE 0]}

CellsWith(segments) ==
    {b \o <<0>> \o r : b \in segments, r \in ResponseSegments}

\* the tensors: one free cell, the other electrodes from BackgroundCells
DataWith(segments) ==
    {[e \in Elecs |-> [p \in Pairs |-> IF e = 1 THEN free ELSE bg[e]]] :
        free \in CellsWith(segments), bg \in [Elecs -> BackgroundCells]}

\* a (rows x cols) metric tensor holding lo and hi in a checkerboard
MetricTensor(rows, cols, lo, hi, k) ==
    [none |-> FALSE, rows |-> rows, cols |-> cols,
     v |-> [e \in 1..rows |-> [p \in 1..cols |-> IF (e + p + k) % 2 = 0 THEN hi ELSE lo]]]

\* None, the right shape (two patterns), a row short, a column wide
MetricArgs(lo, hi) ==
    {NoMetric,
     MetricTensor(NumElec, 1, lo, hi, 0),
     MetricTensor(NumElec, 1, lo, hi, 1),
     MetricTensor(NumElec - 1, 1, lo, hi, 0),
     MetricTensor(NumElec, 2, lo, hi, 0)}

CrossProjArgs == MetricArgs(3, 4)

WaveformArgs == MetricArgs(1000, 1001)

\* the configuration read by the detector, times in ticks
DetConfig(method, peak, n1) ==
    [method |-> method,
     peak_search_epoch |-> peak,
     n1_search_epoch |-> n1,
     baseline_epoch |-> <<-4, 0>>,
     baseline_threshold_factor |-> [n |-> 34, d |-> 10],
     cross_proj_threshold |-> [n |-> 35, d |-> 10],
     waveform_threshold |-> [n |-> 1000, d |-> 1]]

\* the search windows: the whole post-onset epoch, and one past its end
PeakSearchEpochs == {<<0, DetTrialEpoch[2]>>, <<0, DetTrialEpoch[2] + 2>>}

N1SearchEpochs == {<<1, 4>>, <<1, 2>>}

DetConfigs(method, n1s) ==
    {DetConfig(method, pk, n1) : pk \in PeakSearchEpochs, n1 \in n1s}

\* under a metric method the baseline is not read: one baseline, fewer values
MetricMethodData ==
    {[e \in Elecs |-> [p \in Pairs |-> IF e = 1 THEN <<-10, 10, 0>> \o r ELSE bg[e]]] :
        r \in [1..(NumEpochSamples - 3) -> {NaN, -171, -3001}],
        bg \in [Elecs -> BackgroundCells]}

DetCalls ==
    {[data |-> d, c |-> c, cross |-> NoMetric, wave |-> NoMetric] :
        d \in DataWith(BaselineSegments), c \in DetConfigs("std_base", N1SearchEpochs) \ {DetConfig("std_base", <<0, DetTrialEpoch[2] + 2>>, <<1, 2>>)}}
    \cup
    {[data |-> d, c |-> c, cross |-> x, wave |-> v] :
        d \in MetricMethodData, c \in DetConfigs("cross_proj", {<<1, 4>>, <<2, 4>>}),
        x \in CrossProjArgs,
        v \in {NoMetric, MetricTensor(NumElec, 1, 1000, 1001, 0),
               MetricTensor(NumElec - 1, 1, 1000, 1001, 0)}}
    \cup
    {[data |-> d, c |-> c, cross |-> x, wave |-> v] :
        d \in MetricMethodData, c \in DetConfigs("waveform", {<<1, 4>>}),
        x \in {NoMetric, MetricTensor(NumElec, 1, 3, 4, 0)},
        v \in WaveformArgs}

\* what the peak finder reports: every trough, or every trough but one
PeakReports ==
    LET positions == 0..(NumEpochSamples - 4)
    IN  {positions} \cup {positions \ {p} : p \in positions}

DetIdle == [phase |-> "idle"]

\* a call of ieeg_detect_n1 and its outcome
DetectN1 ==
    /\ det.phase = "idle"
    /\ \E call \in DetCalls, found \in PeakReports :
          det' = [phase |-> "returned", call |-> call, found |-> found,
                  out |-> IeegDetectN1(call.data, OnsetSample(DetTrialEpoch), call.c,
                                       call.cross, call.wave, found)]
    /\ UNCHANGED <<ep, pl, cf, run>>

\* the caller drops the results
DetectDone ==
    /\ det.phase = "returned"
    /\ det' = DetIdle
    /\ UNCHANGED <<ep, pl, cf, run>>

InitDetect ==
    /\ det = DetIdle
    /\ ep = [phase |-> "idle"]
    /\ pl = [phase |-> "idle"]
    /\ cf = CfIdle(CreateDefaultConfig)
    /\ run = RunIdle

NextDetect == DetectN1 \/ DetectDone

SpecDetect == InitDetect /\ [][NextDetect]_vars

(***************************************************************************)
(* Properties of ieeg_detect_n1                                            *)
(***************************************************************************)

DetReturned == det.phase = "returned"

\* the pre-onset samples of a cell as they were passed in
PassedBaseline(e, p) == PySlice(det.call.data[e][p], 0, OnsetSample(DetTrialEpoch))

\* ten times 3.4 * max(std, 50) for the two baselines whose standard
\* deviation is defined: 10 for (-10, 10) and 60 for (-60, 60)
TenTimesThreshold(baseline) == IF baseline = <<-60, 60>> THEN 34 * 60 ELSE 34 * 50

HasStd(baseline) == baseline \in {<<-10, 10>>, <<-60, 60>>}

Recorded(e, p) ==
    /\ det.out.status = "ok"
    /\ det.out.res[e][p] = [ind |-> det.out.sel[e][p].ind, amp |-> det.out.sel[e][p].mag]
    /\ ~IsNaN(det.out.res[e][p].amp)

\* C2: a cell whose selected peak has an absolute amplitude above 3000 is left
\* undetected under every method, whatever the baseline and the metrics are,
\* so no recorded amplitude exceeds 3000; under std_base a selected negative
\* peak below 3000 that reaches the threshold is recorded.
C2_SaturationRule ==
    DetReturned =>
        \A e \in Elecs, p \in Pairs :
            LET sel == det.out.sel[e][p]
                res == det.out.res[e][p]
            IN  /\ (sel.has /\ Abs(sel.mag) > 3000 => res = Undetected)
                /\ (~IsNaN(res.amp) => Abs(res.amp) <= 3000)
                /\ (/\ det.out.status = "ok"
                    /\ det.call.c.method = "std_base"
                    /\ sel.has /\ sel.mag < 0 /\ Abs(sel.mag) < 3000
                    /\ HasStd(PassedBaseline(e, p))
                    /\ 10 * Abs(sel.mag) >= TenTimesThreshold(PassedBaseline(e, p))
                    => Recorded(e, p))

\* a call under std_base in which the first cell selects -3001 and stays
\* undetected while the second cell is detected
C2_Witness ==
    /\ DetReturned
    /\ det.out.status = "ok"
    /\ det.call.c.method = "std_base"
    /\ det.out.sel[1][1].has /\ det.out.sel[1][1].mag = -3001
    /\ det.out.res[1][1] = Undetected
    /\ Recorded(2, 1)

\* C3: under std_base a baseline standard deviation below 50 counts as 50 and
\* the selected negative peak is recorded exactly when |amplitude| >=
\* 3.4 * max(std, 50); with a standard deviation of 10, -169 is rejected and
\* -171 is recorded.
C3_StdBaseFloor ==
    DetReturned /\ det.out.status = "ok" /\ det.call.c.method = "std_base" =>
        \A e \in Elecs, p \in Pairs :
            LET sel  == det.out.sel[e][p]
                base == PassedBaseline(e, p)
            IN  sel.has /\ sel.mag <= 0 /\ Abs(sel.mag) <= 3000 /\ HasStd(base) =>
                    /\ Recorded(e, p) <=> 10 * Abs(sel.mag) >= TenTimesThreshold(base)
                    /\ ~Recorded(e, p) => det.out.res[e][p] = Undetected
                    /\ (base = <<-10, 10>> /\ sel.mag = -169 => ~Recorded(e, p))
                    /\ (base = <<-10, 10>> /\ sel.mag = -171 => Recorded(e, p))

\* a baseline of standard deviation 10 and a selected peak of -171, recorded
C3_Witness ==
    /\ DetReturned
    /\ det.call.c.method = "std_base"
    /\ PassedBaseline(1, 1) = <<-10, 10>>
    /\ det.out.sel[1][1].has /\ det.out.sel[1][1].mag = -171
    /\ Recorded(1, 1)

\* the search windows of the call are valid, so that only the input check of
\* the method can make the call return (None, None)
WindowsValid ==
    /\ det.out.w.peak_end >= det.out.w.peak_start
    /\ det.out.w.peak_end <= NumEpochSamples
    /\ det.out.w.n1_end >= det.out.w.n1_start

MissingOrMisshaped(m) == m.none \/ m.rows # NumElec \/ m.cols # Cardinality(Pairs)

\* C4: under cross_proj (waveform) the call fails as a whole exactly when the
\* cross-projection (waveform) metric tensor is missing or not of shape
\* (channels x conditions), and no exception leaves the per-cell loop.
C4_MetricInputCheck ==
    DetReturned /\ WindowsValid =>
        /\ det.out.status # "raised"
        /\ (det.call.c.method = "cross_proj" =>
                (det.out.status = "none" <=> MissingOrMisshaped(det.call.cross)))
        /\ (det.call.c.method = "waveform" =>
                (det.out.status = "none" <=> MissingOrMisshaped(det.call.wave)))

(***************************************************************************)
(* Sample values of the epoching engine: exact fractions, NaN as 0/0       *)
(***************************************************************************)

RECURSIVE Gcd(_, _)
Gcd(a, b) == IF b = 0 THEN a ELSE Gcd(b, a % b)

RNaN == [n |-> 0, d |-> 0]

IsRNaN(x) == x.d = 0

Reduce(n, d, g) == [n |-> n \div g, d |-> d \div g]

\* the fraction n/d in lowest terms, d > 0
Rat(n, d) == Reduce(n, d, Gcd(Abs(n), d))

RInt(i) == [n |-> i, d |-> 1]

RAdd(x, y) == IF IsRNaN(x) \/ IsRNaN(y) THEN RNaN ELSE Rat(x.n * y.d + y.n * x.d, x.d * y.d)

RSub(x, y) == IF IsRNaN(x) \/ IsRNaN(y) THEN RNaN ELSE Rat(x.n * y.d - y.n * x.d, x.d * y.d)

RDivInt(x, k) == IF IsRNaN(x) \/ k = 0 THEN RNaN ELSE Rat(x.n, x.d * k)

RLeq(x, y) == x.n * y.d <= y.n * x.d

RECURSIVE RSum(_)
RSum(s) == IF s = <<>> THEN RInt(0) ELSE RAdd(Head(s), RSum(Tail(s)))

\* the samples that are not NaN
ValidSamples(s) == SelectSeq(s, LAMBDA x : ~IsRNaN(x))

MeanOf(valid) == RDivInt(RSum(valid), Len(valid))

\* np.nanmean over a vector: NaN when no sample is left
NanMean(s) == MeanOf(ValidSamples(s))

RECURSIVE InsertSorted(_, _)
InsertSorted(x, s) ==
    IF s = <<>> THEN <<x>>
    ELSE IF RLeq(x, Head(s)) THEN <<x>> \o s
    ELSE <<Head(s)>> \o InsertSorted(x, Tail(s))

RECURSIVE SortSamples(_)
SortSamples(s) == IF s = <<>> THEN <<>> ELSE InsertSorted(Head(s), SortSamples(Tail(s)))

MedianOfSorted(v) ==
    IF Len(v) = 0 THEN RNaN
    ELSE IF Len(v) % 2 = 1 THEN v[(Len(v) + 1) \div 2]
    ELSE RDivInt(RAdd(v[Len(v) \div 2], v[Len(v) \div 2 + 1]), 2)

\* np.nanmedian over a vector
NanMedian(s) == MedianOfSorted(SortSamples(ValidSamples(s)))

\* the baseline level of a trial: baseline_method 1 is the mean, 2 the median
BaselineLevel(baseline_method, s) == IF baseline_method = 1 THEN NanMean(s) ELSE NanMedian(s)

SubtractLevel(s, level) == [j \in 1..Len(s) |-> RSub(s[j], level)]

\* allocate_array: a vector of n NaN
NaNRow(n) == [j \in 1..n |-> RNaN]

(***************************************************************************)
(* src/utils/bids.py : the data reader and __prepare_input                 *)
(***************************************************************************)

\* data_reader.retrieve_channel_data(channel): the samples of one channel
RetrieveChannelData(rec, channel) == [i \in 1..Len(rec[channel]) |-> RInt(rec[channel][i])]

\* data_reader.retrieve_sample_range_data(channel, start, end)
RetrieveSampleRangeData(rec, channel, start, end) ==
    PySlice(RetrieveChannelData(rec, channel), start, end)

\* data_reader.num_samples
ReaderNumSamples(rec) == Len(rec[CHOOSE c \in DOMAIN rec : TRUE])

\* baseline_norm to baseline_method (lines 313-323); -1 is the ValueError
BaselineMethod(baseline_norm) ==
    IF baseline_norm = "None" \/ baseline_norm = "" THEN 0
    ELSE IF baseline_norm = "mean" \/ baseline_norm = "average" THEN 1
    ELSE IF baseline_norm = "median" THEN 2
    ELSE IF baseline_norm = "none" THEN 0
    ELSE -1

\* out_of_bound_handling to out_of_bound_method (lines 331-339); -1 is the ValueError
OutOfBoundMethod(out_of_bound_handling) ==
    IF out_of_bound_handling = "first_last_only" THEN 1
    ELSE IF out_of_bound_handling = "allow" THEN 2
    ELSE IF out_of_bound_handling = "error" THEN 0
    ELSE -1

\* __prepare_input raises (lines 296-339); data_format 2 streams per trial
PrepareRaises(data_format, a) ==
    \/ a.trial_epoch[2] < a.trial_epoch[1]
    \/ BaselineMethod(a.baseline_norm) = -1
    \/ /\ a.baseline_norm # "None" /\ a.baseline_norm # ""
       /\ \/ a.baseline_epoch[2] < a.baseline_epoch[1]
          \/ /\ data_format = 2
             /\ \/ a.baseline_epoch[1] < a.trial_epoch[1]
                \/ a.baseline_epoch[2] > a.trial_epoch[2]
    \/ OutOfBoundMethod(a.out_of_bound_handling) = -1

\* the arguments as the loaders receive them
Prepared(a) ==
    [trial_epoch |-> a.trial_epoch,
     baseline_epoch |-> a.baseline_epoch,
     baseline_method |-> BaselineMethod(a.baseline_norm),
     out_of_bound_method |-> OutOfBoundMethod(a.out_of_bound_handling),
     trial_num_samples |-> ToSamples(Abs(a.trial_epoch[2] - a.trial_epoch[1])),
     baseline_num_samples |-> ToSamples(Abs(a.baseline_epoch[2] - a.baseline_epoch[1]))]

(***************************************************************************)
(* src/utils/bids.py : the bounds of one trial                             *)
(***************************************************************************)

\* the edge entry tolerated under every policy
PermitsAlso(out_of_bound_method, edge) == edge \/ out_of_bound_method = 2

\* the policy tolerates a trial out of bounds: first_last_only at the edge
\* entry only, allow always
Permits(out_of_bound_method, edge) ==
    (out_of_bound_method = 1 /\ edge) \/ out_of_bound_method = 2

RaiseTrial == [kind |-> "raise", local_start |-> 0, local_end |-> 0, first |-> 0, last |-> 0]

SkipTrial == [kind |-> "skip", local_start |-> 0, local_end |-> 0, first |-> 0, last |-> 0]

\* the four bound checks on the window [start, start + n) of a trial against
\* a recording of size samples; a taken trial is read from [first, last) and
\* written to [local_start, local_end)
TrialExtent(start, n, size, oob, isfirst, islast) ==
    IF start + n < 0
    THEN (IF Permits(oob, isfirst) THEN SkipTrial ELSE RaiseTrial)
    ELSE IF start < 0 /\ ~Permits(oob, isfirst) THEN RaiseTrial
    ELSE IF Max2(start, 0) > size
    THEN (IF Permits(oob, islast) THEN SkipTrial ELSE RaiseTrial)
    ELSE IF start + n > size /\ ~Permits(oob, islast) THEN RaiseTrial
    ELSE [kind |-> "take",
          local_start |-> IF start < 0 THEN start * (-1) ELSE 0,
          local_end   |-> IF start + n > size THEN n - (start + n - size) ELSE n,
          first |-> Max2(start, 0),
          last  |-> IF start + n > size THEN size ELSE start + n]

\* trial_sample_start
TrialSampleStart(onset, trial_epoch) == ToSamples(onset + trial_epoch[1])

\* baseline_start_sample, as an index into the recording
BaselineStartSample(onset, baseline_epoch) == ToSamples(onset + baseline_epoch[1])

\* ref[local_start:local_end] = src on a row of n NaN
WriteRow(n, x, src) ==
    [j \in 1..n |-> IF j - 1 >= x.local_start /\ j - 1 < x.local_end
                   THEN src[j - x.local_start] ELSE RNaN]

TrialRaised == [raised |-> TRUE, skipped |-> FALSE, row |-> <<>>, base |-> <<>>]

TrialSkipped(p) ==
    [raised |-> FALSE, skipped |-> TRUE, row |-> NaNRow(p.trial_num_samples),
     base |-> NaNRow(p.baseline_num_samples)]

TrialRow(row, base) == [raised |-> FALSE, skipped |-> FALSE, row |-> row, base |-> base]

\* a trial by the outcome of its bound checks
OnExtent(x, p, taken) ==
    IF x.kind = "raise" THEN TrialRaised
    ELSE IF x.kind = "skip" THEN TrialSkipped(p)
    ELSE taken

\* the baseline window [bs, bs + baseline_num_samples) leaves the recording
BaselineOutsideData(bs, size, p) == bs < 0 \/ bs + p.baseline_num_samples > size

\* the baseline window, relative to the start of the trial window, leaves the
\* trial window or the part of it that the recording covers
BaselineOutsideTrial(bsr, x, p) ==
    \/ bsr < 0
    \/ bsr + p.baseline_num_samples > p.trial_num_samples
    \/ bsr < x.local_start \/ bsr + p.baseline_num_samples > x.local_end

\* trial_data - level, written at once (no metric callback)
WriteNormalized(trial_data, x, baseline, p) ==
    IF p.baseline_method = 0
    THEN TrialRow(WriteRow(p.trial_num_samples, x, trial_data), <<>>)
    ELSE TrialRow(WriteRow(p.trial_num_samples, x,
                           SubtractLevel(trial_data, BaselineLevel(p.baseline_method, baseline))),
                  <<>>)

\* baseline_data[.., trial_idx, :] = baseline: numpy broadcasts one sample
\* over the row and raises on any other length than baseline_num_samples
WriteDeferred(trial_data, x, baseline, p) ==
    IF p.baseline_method = 0
    THEN TrialRow(WriteRow(p.trial_num_samples, x, trial_data), <<>>)
    ELSE IF Len(baseline) = p.baseline_num_samples
    THEN TrialRow(WriteRow(p.trial_num_samples, x, trial_data), baseline)
    ELSE IF Len(baseline) = 1
    THEN TrialRow(WriteRow(p.trial_num_samples, x, trial_data),
                  [j \in 1..p.baseline_num_samples |-> baseline[1]])
    ELSE TrialRaised

WriteTrial(trial_data, x, baseline, p, defer) ==
    IF defer THEN WriteDeferred(trial_data, x, baseline, p)
    ELSE WriteNormalized(trial_data, x, baseline, p)

\* one trial of one channel, the baseline read from the recording at bs
TrialFromChannel(channel_data, x, bs, p, defer) ==
    OnExtent(x, p,
        IF p.baseline_method > 0 /\ BaselineOutsideData(bs, Len(channel_data), p)
        THEN TrialRaised
        ELSE WriteTrial(PySlice(channel_data, x.first, x.last), x,
                        PySlice(channel_data, bs, bs + p.baseline_num_samples), p, defer))

\* the baseline read from the samples retrieved for the trial, at bsr
BaselineOfTrialData(trial_data, x, bsr, p, defer) ==
    WriteTrial(trial_data, x, PySlice(trial_data, bsr, bsr + p.baseline_num_samples), p, defer)

\* one trial of one channel, the samples [x.first, x.last) retrieved for it
TrialFromRange(rec, channel, x, bsr, p, defer) ==
    OnExtent(x, p,
        IF p.baseline_method > 0 /\ BaselineOutsideTrial(bsr, x, p)
        THEN TrialRaised
        ELSE BaselineOfTrialData(RetrieveSampleRangeData(rec, channel, x.first, x.last),
                                 x, bsr, p, defer))

(***************************************************************************)
(* src/utils/bids.py : load_data_epochs                                    *)
(***************************************************************************)

EpochsRaised == [status |-> "raised", data |-> <<>>]

\* the outcome of a call from the outcomes of its trials
CollectEpochs(trials) ==
    IF \E c \in DOMAIN trials : \E t \in DOMAIN trials[c] : trials[c][t].raised
    THEN EpochsRaised
    ELSE [status |-> "ok",
          data |-> [c \in DOMAIN trials |-> [t \in DOMAIN trials[c] |-> trials[c][t].row]]]

\* the bounds of trial t of a flat list of onsets
ExtentOfTrial(rec, onsets, t, p) ==
    TrialExtent(TrialSampleStart(onsets[t], p.trial_epoch), p.trial_num_samples,
                ReaderNumSamples(rec), p.out_of_bound_method, t = 1, t = Len(onsets))

LoadDataEpochsByChannels(rec, channels, onsets, p) ==
    CollectEpochs([c \in 1..Len(channels) |-> [t \in 1..Len(onsets) |->
        TrialFromChannel(RetrieveChannelData(rec, channels[c]),
                         ExtentOfTrial(rec, onsets, t, p),
                         BaselineStartSample(onsets[t], p.baseline_epoch), p, FALSE)]])

LoadDataEpochsByTrial(rec, channels, onsets, p) ==
    CollectEpochs([c \in 1..Len(channels) |-> [t \in 1..Len(onsets) |->
        TrialFromRange(rec, channels[c], ExtentOfTrial(rec, onsets, t, p),
                       BaselineStartSample(onsets[t], p.baseline_epoch)
                           - TrialSampleStart(onsets[t], p.trial_epoch), p, FALSE)]])

\* load_data_epochs(data_path, channels, onsets, trial_epoch, baseline_norm,
\* baseline_epoch, out_of_bound_handling) on the recording rec of format
\* data_format
LoadDataEpochs(rec, data_format, channels, onsets, a) ==
    IF PrepareRaises(data_format, a) THEN EpochsRaised
    ELSE IF data_format \in {0, 1} THEN LoadDataEpochsByChannels(rec, channels, onsets, Prepared(a))
    ELSE LoadDataEpochsByTrial(rec, channels, onsets, Prepared(a))

(***************************************************************************)
(* src/utils/bids.py : load_data_epochs_averages                           *)
(***************************************************************************)

\* the trial after the postponed normalization
AfterCallbacks(trial, p, defer) ==
    IF defer /\ p.baseline_method > 0
    THEN SubtractLevel(trial.row, BaselineLevel(p.baseline_method, trial.base))
    ELSE trial.row

\* np.nanmean over the trial axis
AverageRows(rows, n) ==
    [j \in 1..n |-> NanMean([t \in 1..Len(rows) |-> rows[t][j]])]

AverageTrials(trials, p, defer) ==
    AverageRows([t \in 1..Len(trials) |-> AfterCallbacks(trials[t], p, defer)],
                p.trial_num_samples)

\* the bounds of trial ti of condition ci
ExtentOfConditionTrial(rec, conditions_onsets, ci, ti, p) ==
    TrialExtent(TrialSampleStart(conditions_onsets[ci][ti], p.trial_epoch),
                p.trial_num_samples, ReaderNumSamples(rec), p.out_of_bound_method,
                ci = 1 /\ ti = 1,
                ci = Len(conditions_onsets) /\ ti = Len(conditions_onsets[ci]))

\* del condition_data, trial_data at the end of a condition in which no trial
\* was loaded: trial_data is not bound
UnboundTrialData(trials) ==
    \E ci \in DOMAIN trials[1] : \A ti \in DOMAIN trials[1][ci] : trials[1][ci][ti].skipped

AveragesRaised == [status |-> "raised", data |-> <<>>, metrics |-> "None"]

CollectAverages(trials, p, defer, unbound) ==
    IF unbound \/ \E c \in DOMAIN trials : \E ci \in DOMAIN trials[c] :
                      \E ti \in DOMAIN trials[c][ci] : trials[c][ci][ti].raised
    THEN AveragesRaised
    ELSE [status |-> "ok",
          data |-> [c \in DOMAIN trials |-> [ci \in DOMAIN trials[c] |->
                      AverageTrials(trials[c][ci], p, defer)]],
          metrics |-> "None"]

\* raised trials stop the call before any del is reached
AveragesByConditionTrialOutcome(trials, p, defer) ==
    CollectAverages(trials, p, defer, UnboundTrialData(trials))

LoadDataEpochAveragesByConditionTrial(rec, channels, conditions_onsets, p, defer) ==
    AveragesByConditionTrialOutcome(
        [c \in 1..Len(channels) |-> [ci \in 1..Len(conditions_onsets) |->
            [ti \in 1..Len(conditions_onsets[ci]) |->
                TrialFromRange(rec, channels[c],
                    ExtentOfConditionTrial(rec, conditions_onsets, ci, ti, p),
                    BaselineStartSample(conditions_onsets[ci][ti], p.baseline_epoch)
                        - TrialSampleStart(conditions_onsets[ci][ti], p.trial_epoch),
                    p, defer)]]], p, defer)

LoadDataEpochAveragesByChannelConditionTrial(rec, channels, conditions_onsets, p, defer) ==
    CollectAverages(
        [c \in 1..Len(channels) |-> [ci \in 1..Len(conditions_onsets) |->
            [ti \in 1..Len(conditions_onsets[ci]) |->
                TrialFromChannel(RetrieveChannelData(rec, channels[c]),
                    ExtentOfConditionTrial(rec, conditions_onsets, ci, ti, p),
                    BaselineStartSample(conditions_onsets[ci][ti], p.baseline_epoch),
                    p, defer)]]], p, defer, FALSE)

\* load_data_epochs_averages(data_path, channels, conditions_onsets, ...);
\* defer is "metric_callbacks is not None", the callbacks an empty tuple
LoadDataEpochsAverages(rec, data_format, channels, conditions_onsets, a, defer) ==
    IF PrepareRaises(data_format, a) THEN AveragesRaised
    ELSE IF data_format \in {0, 1}
    THEN LoadDataEpochAveragesByChannelConditionTrial(rec, channels, conditions_onsets,
                                                      Prepared(a), defer)
    ELSE LoadDataEpochAveragesByConditionTrial(rec, channels, conditions_onsets,
                                               Prepared(a), defer)

(***************************************************************************)
(* The epoching calls that are explored                                    *)
(***************************************************************************)

\* the number of samples of a recording
RecLen == 8

\* the largest number of trials in one list of onsets
MaxTrials == 2

\* a recording of two channels without a repeated value, and one that is 100
\* on samples 1..3 and 150 elsewhere
RampRec == <<[i \in 1..RecLen |-> i * i], [i \in 1..RecLen |-> 2 * i * i + 1]>>

StepRec == <<[i \in 1..RecLen |-> IF i \in 2..4 THEN 100 ELSE 150],
             [i \in 1..RecLen |-> IF i \in 2..4 THEN 1100 ELSE 1150]>>

EpChannels == <<1, 2>>

\* five samples per trial, three of them before the onset
EpTrialEpoch == <<-6, 4>>

\* onsets (in ticks): a window ending before the recording, one starting a
\* sample early, three inside, one ending late and one starting after the end
OnsetValues == {-8, 4, 5, 8, 2 * RecLen - 2, 2 * RecLen + 8}

AvgOnsetValues == {4, 8, 2 * RecLen - 2, 2 * RecLen + 8}

OnsetLists(values) == UNION {[1..k -> values] : k \in 1..MaxTrials}

\* one condition, or two of which one has a single trial
ConditionLists ==
    {<<l>> : l \in OnsetLists(AvgOnsetValues)}
        \cup {<<l, <<o>>>> : l \in OnsetLists(AvgOnsetValues), o \in AvgOnsetValues}
        \cup {<<<<o>>, l>> : l \in OnsetLists(AvgOnsetValues), o \in AvgOnsetValues}

\* the whole pre-onset part, the sample before the onset, the sample before
\* the trial window, the trial window but its first sample
BaselineEpochs == {<<-6, 0>>, <<-2, 0>>, <<-8, -6>>, <<-4, 4>>}

EpArgs ==
    {[trial_epoch |-> EpTrialEpoch, baseline_norm |-> bn, baseline_epoch |-> be,
      out_of_bound_handling |-> oob] :
        bn \in {"mean", "median"}, be \in BaselineEpochs,
        oob \in {"error", "first_last_only", "allow"}}
    \cup
    {[trial_epoch |-> EpTrialEpoch, baseline_norm |-> "None", baseline_epoch |-> <<-6, 0>>,
      out_of_bound_handling |-> oob] : oob \in {"error", "first_last_only", "allow"}}

DataFormats == {0, 2}

EpIdle == [phase |-> "idle"]

\* a call of load_data_epochs
CallLoadDataEpochs ==
    /\ ep.phase = "idle"
    /\ \E rec \in {RampRec, StepRec}, f \in DataFormats, a \in EpArgs,
          onsets \in OnsetLists(OnsetValues) :
            ep' = [phase |-> "returned", fn |-> "epochs", rec |-> rec, data_format |-> f,
                   a |-> a, conditions_onsets |-> <<onsets>>, defer |-> FALSE,
                   out |-> LoadDataEpochs(rec, f, EpChannels, onsets, a)]
    /\ UNCHANGED <<det, pl, cf, run>>

\* a call of load_data_epochs_averages
CallLoadDataEpochsAverages ==
    /\ ep.phase = "idle"
    /\ \E f \in DataFormats, a \in EpArgs, co \in ConditionLists, defer \in BOOLEAN :
            ep' = [phase |-> "returned", fn |-> "averages", rec |-> RampRec, data_format |-> f,
                   a |-> a, conditions_onsets |-> co, defer |-> defer,
                   out |-> LoadDataEpochsAverages(RampRec, f, EpChannels, co, a, defer)]
    /\ UNCHANGED <<det, pl, cf, run>>

EpochsDone ==
    /\ ep.phase = "returned"
    /\ ep' = EpIdle
    /\ UNCHANGED <<det, pl, cf, run>>

InitEpochs ==
    /\ det = DetIdle
    /\ ep = EpIdle
    /\ pl = [phase |-> "idle"]
    /\ cf = CfIdle(CreateDefaultConfig)
    /\ run = RunIdle

NextEpochs == CallLoadDataEpochs \/ CallLoadDataEpochsAverages \/ EpochsDone

SpecEpochs == InitEpochs /\ [][NextEpochs]_vars

(***************************************************************************)
(* Properties of the epoching engine                                       *)
(***************************************************************************)

EpReturned == ep.phase = "returned"

\* the window [WinStart, WinStart + WinLen) of trial ti of condition ci of the
\* returned call (load_data_epochs has the single condition 1)
WinStart(ci, ti) == ToSamples(ep.conditions_onsets[ci][ti] + ep.a.trial_epoch[1])

WinLen == ToSamples(Abs(ep.a.trial_epoch[2] - ep.a.trial_epoch[1]))

StartsEarly(ci, ti) == WinStart(ci, ti) < 0

EndsLate(ci, ti) == WinStart(ci, ti) + WinLen > Len(ep.rec[1])

IsFirstEntry(ci, ti) == ci = 1 /\ ti = 1

IsLastEntry(ci, ti) ==
    ci = Len(ep.conditions_onsets) /\ ti = Len(ep.conditions_onsets[ci])

EpTrials ==
    {x \in (DOMAIN ep.conditions_onsets) \X (1..MaxTrials) :
        x[2] \in DOMAIN ep.conditions_onsets[x[1]]}

\* sample j (1-based) of the window of a trial lies in the recording
InRecording(ci, ti, j) ==
    WinStart(ci, ti) + j - 1 >= 0 /\ WinStart(ci, ti) + j - 1 < Len(ep.rec[1])

\* the sample of the recording under sample j of the window
RecordingAt(c, ci, ti, j) == RInt(ep.rec[c][WinStart(ci, ti) + j])

\* the arguments pass the checks made once per call: a streamed recording
\* needs the baseline window inside the trial window
ArgsAccepted ==
    \/ ep.a.baseline_norm = "None"
    \/ ep.data_format # 2
    \/ /\ ep.a.baseline_epoch[1] >= ep.a.trial_epoch[1]
       /\ ep.a.baseline_epoch[2] <= ep.a.trial_epoch[2]

NoNaNInOutput ==
    \A c \in DOMAIN ep.out.data : \A k \in DOMAIN ep.out.data[c] :
        \A j \in DOMAIN ep.out.data[c][k] : ~IsRNaN(ep.out.data[c][k][j])

\* C6: under the policy 'error' every epoching entry point, in each strategy,
\* aborts and returns no data when a trial window is not entirely inside the
\* recording, and a call that returns holds no NaN-padded or skipped trial.
C6_ErrorPolicyAborts ==
    EpReturned /\ ep.a.out_of_bound_handling = "error" =>
        /\ (\E x \in EpTrials : StartsEarly(x[1], x[2]) \/ EndsLate(x[1], x[2]))
                => ep.out.status = "raised" /\ ep.out.data = <<>>
        /\ ep.out.status = "ok" => NoNaNInOutput

\* an averaging call on a streamed recording, its last trial ending late
C6_Witness ==
    /\ EpReturned
    /\ ep.a.out_of_bound_handling = "error"
    /\ ep.fn = "averages" /\ ep.data_format = 2 /\ ep.a.baseline_norm = "None"
    /\ Len(ep.conditions_onsets) = 2
    /\ \A x \in EpTrials : ~StartsEarly(x[1], x[2])
    /\ \A x \in EpTrials : EndsLate(x[1], x[2]) <=> IsLastEntry(x[1], x[2])
    /\ ep.out.status = "raised"

\* C7: under the policy 'first_last_only' a trial that starts before sample 0
\* is accepted iff it is the first entry and a trial that ends after the last
\* sample iff it is the last entry; the call then succeeds, the trial holding
\* NaN exactly outside the recording and the recording's values elsewhere;
\* any other trial out of bounds aborts the call.
C7_FirstLastOnly ==
    EpReturned /\ ep.a.out_of_bound_handling = "first_last_only" /\ ArgsAccepted =>
        /\ ep.out.status = "ok" <=>
              \A x \in EpTrials :
                  /\ StartsEarly(x[1], x[2]) => IsFirstEntry(x[1], x[2])
                  /\ EndsLate(x[1], x[2]) => IsLastEntry(x[1], x[2])
        /\ ep.out.status = "ok" /\ ep.fn = "epochs" /\ ep.a.baseline_norm = "None" =>
              \A c \in DOMAIN ep.out.data : \A t \in DOMAIN ep.out.data[c] :
                  \A j \in 1..WinLen :
                      ep.out.data[c][t][j] =
                          IF InRecording(1, t, j) THEN RecordingAt(c, 1, t, j) ELSE RNaN

\* C8: under the policy 'allow' no call aborts because of where a trial
\* window or its baseline window lies; the call returns, with NaN in every
\* sample outside the recording, also under mean or median normalization.
C8_AllowNeverAborts ==
    EpReturned /\ ep.a.out_of_bound_handling = "allow" /\ ArgsAccepted =>
        /\ ep.out.status = "ok"
        /\ ep.fn = "epochs" =>
              \A c \in DOMAIN ep.out.data : \A t \in DOMAIN ep.out.data[c] :
                  \A j \in 1..WinLen :
                      ~InRecording(1, t, j) => IsRNaN(ep.out.data[c][t][j])

\* the recording's samples in the baseline window of trial t
BaselineWindowOf(c, t) ==
    PySlice([i \in 1..Len(ep.rec[c]) |-> RInt(ep.rec[c][i])],
            ToSamples(ep.conditions_onsets[1][t] + ep.a.baseline_epoch[1]),
            ToSamples(ep.conditions_onsets[1][t] + ep.a.baseline_epoch[1])
                + ToSamples(Abs(ep.a.baseline_epoch[2] - ep.a.baseline_epoch[1])))

ExpectedLevel(c, t) ==
    IF ep.a.baseline_norm = "mean" THEN NanMean(BaselineWindowOf(c, t))
    ELSE NanMedian(BaselineWindowOf(c, t))

\* C9: with baseline_norm mean (median) every trial that load_data_epochs
\* extracts is the recording in the trial window minus the mean (median) of
\* the recording in the baseline window of that trial, in both strategies and
\* also for a trial that is NaN-padded at its start.
C9_BaselineNormalization ==
    /\ EpReturned /\ ep.fn = "epochs" /\ ep.out.status = "ok"
    /\ ep.a.baseline_norm \in {"mean", "median"}
    => \A c \in DOMAIN ep.out.data : \A t \in DOMAIN ep.out.data[c] :
           \A j \in 1..WinLen :
               InRecording(1, t, j) =>
                   ep.out.data[c][t][j] = RSub(RecordingAt(c, 1, t, j), ExpectedLevel(c, t))

(***************************************************************************)
(* src/erdetect/_erdetect.py : process_subset and src/main_run.py, from    *)
(* the channel and event metadata to the intermediate save                 *)
(***************************************************************************)

\* the names of the channels.tsv rows that are not bad and of an included
\* type; names are unique and types upper case in the tables explored
ChannelsOfTypes(channel_tsv, types) ==
    [i \in 1..Len(SelectSeq(channel_tsv, LAMBDA row : row.status # "bad" /\ row.type \in types))
        |-> SelectSeq(channel_tsv, LAMBDA row : row.status # "bad" /\ row.type \in types)[i].name]

\* the stimulation events that are kept: numeric onset >= 0 and status good
StimTrials(events_tsv) ==
    SelectSeq(events_tsv, LAMBDA row : /\ row.trial_type = "electrical_stimulation"
                                       /\ row.onset >= 0
                                       /\ row.status = "good")

\* electrical_stimulation_site.split('-') is not two non-empty names
SiteInvalid(row) == Len(row.site) # 2 \/ \E k \in 1..Len(row.site) : row.site[k] = ""

\* both directions counted for the pair, whatever concat is
PairTrialsEitherWay(trials, ch0, ch1, concat) ==
    SelectSeq(trials, LAMBDA x : \/ x.site[1] = ch0 /\ x.site[2] = ch1
                                 \/ x.site[1] = ch1 /\ x.site[2] = ch0)

\* the trials of the stim-pair ch0-ch1, in event order
PairTrials(trials, ch0, ch1, concat) ==
    SelectSeq(trials, LAMBDA x : \/ x.site[1] = ch0 /\ x.site[2] = ch1
                                 \/ concat /\ x.site[1] = ch1 /\ x.site[2] = ch0)

\* the combination (iChannel0, iChannel1) of the double loop, 0-based; the
\* label stands for the string channels[iChannel0] + '-' + channels[iChannel1]
PairOf(channels, trials, concat, iChannel0, iChannel1) ==
    [label |-> <<channels[iChannel0 + 1], channels[iChannel1 + 1]>>,
     electrode_indices |-> <<iChannel0, iChannel1>>,
     onsets |-> IF concat /\ iChannel1 < iChannel0 THEN <<>>
                ELSE [i \in 1..Len(PairTrials(trials, channels[iChannel0 + 1],
                                              channels[iChannel1 + 1], concat))
                        |-> PairTrials(trials, channels[iChannel0 + 1],
                                       channels[iChannel1 + 1], concat)[i].onset]]

\* the stim-pairs that have trials, in the order the double loop adds them
StimPairs(channels, trials, concat) ==
    SelectSeq([k \in 1..(Len(channels) * Len(channels)) |->
                  PairOf(channels, trials, concat,
                         (k - 1) \div Len(channels), (k - 1) % Len(channels))],
              LAMBDA pair : Len(pair.onsets) > 0)

\* the stim-pairs left after those with too few trials are removed
RetainedStimPairs(pairs, minimum_stimpair_trials) ==
    SelectSeq(pairs, LAMBDA pair : ~(Len(pair.onsets) < minimum_stimpair_trials))

\* list.index(name), 0-based; -1 stands for the ValueError
IndexOf(list, name) ==
    IF \E i \in 1..Len(list) : list[i] = name
    THEN (CHOOSE i \in 1..Len(list) : list[i] = name /\ \A j \in 1..(i - 1) : list[j] # name) - 1
    ELSE -1

\* only the first electrode of each pair
StimulatedRowsFirstOnly(channels_measured, pairs) ==
    [iPair \in 1..Len(pairs) |-> {IndexOf(channels_measured, pairs[iPair].label[1])} \ {-1}]

\* process_subset: the rows (0-based) of the stimulated electrodes of each
\* pair among the measured channels, looked up by name
StimulatedRowsByName(channels_measured, pairs) ==
    [iPair \in 1..Len(pairs) |->
        {IndexOf(channels_measured, pairs[iPair].label[1]),
         IndexOf(channels_measured, pairs[iPair].label[2])} \ {-1}]

\* main_run: the rows are the loop indices of the pair
StimulatedRowsByIndex(pairs) ==
    [iPair \in 1..Len(pairs) |->
        {pairs[iPair].electrode_indices[1], pairs[iPair].electrode_indices[2]}]

\* averages[row, iPair, :] = np.nan for the rows of each pair
NanOut(averages, rows) ==
    [c \in DOMAIN averages |-> [iPair \in DOMAIN averages[c] |->
        IF c - 1 \in rows[iPair] THEN NaNRow(Len(averages[c][iPair]))
        ELSE averages[c][iPair]]]

\* the conditions passed to load_data_epochs_averages
ConditionsOnsets(pairs) == [iPair \in 1..Len(pairs) |-> pairs[iPair].onsets]

\* the stimulus onset counted from the epoch start
PlOnsetSample(trial_epoch) == PyRound(Abs(trial_epoch[1] * Rate.n), Rate.d)

\* the position of a flow that has its channel lists
PlStarted(flow, in, channels_measured, channels_stim) ==
    [phase |-> "channels", flow |-> flow, in |-> in,
     channels_measured |-> channels_measured, channels_stim |-> channels_stim,
     stim_pairs |-> <<>>, error |-> "", averages |-> <<>>, saved |-> <<>>,
     effects |-> <<>>, snapshot |-> <<>>, detection |-> <<>>]

\* the flow stops: a RuntimeError in process_subset, exit(1) in main_run
PlFailed(s, error) == [s EXCEPT !.phase = "failed", !.error = error]

\* the trials and the stim-pairs are determined, and the flow stops when
\* there are no channels, an invalid site, no trials or no stim-pairs
WithStimPairs(s, trials, pairs) ==
    IF Len(s.channels_measured) = 0 THEN PlFailed(s, "No channels were found")
    ELSE IF \E i \in 1..Len(trials) : SiteInvalid(trials[i])
    THEN PlFailed(s, "Electrical stimulation site invalid")
    ELSE IF Len(trials) = 0 THEN PlFailed(s, "No trials found")
    ELSE IF Len(pairs) = 0 THEN PlFailed(s, "No stimulus-pairs found")
    ELSE [s EXCEPT !.phase = "pairs", !.stim_pairs = pairs]

\* the channel lists, the trials and the stim-pairs of a flow
PairsRetrieved(flow, in, channels_measured, channels_stim) ==
    WithStimPairs(PlStarted(flow, in, channels_measured, channels_stim),
                  StimTrials(in.events_tsv),
                  RetainedStimPairs(StimPairs(channels_stim, StimTrials(in.events_tsv),
                                              in.concat_bidirectional_pairs),
                                    in.minimum_stimpair_trials))

\* the averages of the flow, the stimulated rows cleared
WithAverages(s, loaded, rows) ==
    IF loaded.status = "raised" THEN PlFailed(s, "Could not load data")
    ELSE [s EXCEPT !.phase = "averaged", !.averages = NanOut(loaded.data, rows)]

\* ccep_data.mat as written by the intermediate save: the fields that
\* depend on the channels, the stim-pairs and the averages
OutputDict(s) ==
    [onset_sample |-> PlOnsetSample(s.in.args.trial_epoch),
     ccep_average |-> s.averages,
     stimpair_labels |-> [iPair \in 1..Len(s.stim_pairs) |-> s.stim_pairs[iPair].label],
     channel_labels |-> s.channels_measured]

\* the averaged tensor as the detector reads it, amplitudes in whole units
DetectorData(averages) ==
    [c \in DOMAIN averages |-> [iPair \in DOMAIN averages[c] |->
        [j \in DOMAIN averages[c][iPair] |->
            IF IsRNaN(averages[c][iPair][j]) THEN NaN
            ELSE averages[c][iPair][j].n \div averages[c][iPair][j].d]]]

\* ieeg_detect_n1(averages, onset_sample, ...) of the legacy flow, without
\* metrics and with a peak finder that reports every trough
PlDetectN1(s, c) ==
    IeegDetectN1(DetectorData(s.averages), PlOnsetSample(s.in.args.trial_epoch), c,
                 NoMetric, NoMetric, 0..Len(s.averages[1][1]))

\* the tensor in the inverted sign convention of the positive polarity
Inverted(data) ==
    [c \in DOMAIN data |-> [iPair \in DOMAIN data[c] |->
        [j \in DOMAIN data[c][iPair] |->
            IF IsNaN(data[c][iPair][j]) THEN NaN ELSE 0 - data[c][iPair][j]]]]

\* ieeg_detect_er(averages, onset_sample, ..., detect_positive): the
\* classification of section 4.8 for one polarity
IeegDetectEr(s, c, detect_positive) ==
    IeegDetectN1(IF detect_positive THEN Inverted(DetectorData(s.averages))
                 ELSE DetectorData(s.averages),
                 PlOnsetSample(s.in.args.trial_epoch), c,
                 NoMetric, NoMetric, 0..Len(s.averages[1][1]))

\* what a flow keeps of its detection: the polarities and their arrays
Detection(c, negative, positive, neg, pos) ==
    [c |-> c, negative |-> negative, positive |-> positive, neg |-> neg, pos |-> pos]

\* the detector has run and the flow goes on
Detected(s, detection) ==
    [s EXCEPT !.phase = "detected", !.detection = detection,
              !.effects = Append(s.effects, "detection")]

\* the detector has run and the flow stops
DetectionFailed(s, error, detection) ==
    [PlFailed(s, error) EXCEPT !.detection = detection,
                               !.effects = Append(s.effects, "detection")]

\* the legacy flow after ieeg_detect_n1, whatever it returned
MainRunGoesOn(s, c, out) == Detected(s, Detection(c, TRUE, FALSE, out.res, <<>>))

\* the legacy flow after ieeg_detect_n1: exit(1) on (None, None), and an
\* exception of the detector ends the script
MainRunDetected(s, c, out) ==
    IF out.status = "none"
    THEN DetectionFailed(s, "N1 detection failed", Detection(c, TRUE, FALSE, <<>>, <<>>))
    ELSE IF out.status = "raised"
    THEN DetectionFailed(s, "Traceback", Detection(c, TRUE, FALSE, <<>>, <<>>))
    ELSE Detected(s, Detection(c, TRUE, FALSE, out.res, <<>>))

\* process_subset after the detection of the enabled polarities: a call
\* that fails raises, and the flow is left with a RuntimeError
SubsetDetected(s, c, negative, positive, neg, pos) ==
    IF (negative /\ neg.status # "ok") \/ (positive /\ pos.status # "ok")
    THEN DetectionFailed(s, "Evoked response detection failed",
                         Detection(c, negative, positive, <<>>, <<>>))
    ELSE Detected(s, Detection(c, negative, positive,
                               IF negative THEN neg.res ELSE <<>>,
                               IF positive THEN pos.res ELSE <<>>))

\* the arrays one polarity adds to the output under the two names given
PeakFields(names, res) ==
    (names[1] :> [e \in DOMAIN res |-> [p \in DOMAIN res[e] |-> res[e][p].ind]]) @@
    (names[2] :> [e \in DOMAIN res |-> [p \in DOMAIN res[e] |-> res[e][p].amp]])

\* ccep_data.mat as written after the detection
DetectionDict(s) ==
    IF s.flow = "main_run"
    THEN PeakFields(<<"n1_peak_indices", "n1_peak_amplitudes">>, s.detection.neg) @@ s.saved
    ELSE (IF s.detection.negative
          THEN PeakFields(<<"neg_peak_latency_samples", "neg_peak_amplitudes">>, s.detection.neg)
          ELSE <<>>) @@
         (IF s.detection.positive
          THEN PeakFields(<<"pos_peak_latency_samples", "pos_peak_amplitudes">>, s.detection.pos)
          ELSE <<>>) @@ s.saved

(***************************************************************************)
(* The subsets that are explored                                           *)
(***************************************************************************)

\* the most trials one stimulated site has
MaxPerPair == 3

\* three ECoG channels; B a stereo-EEG channel; B marked bad
ChannelTables ==
    {<<[name |-> "A", type |-> "ECOG", status |-> "good"],
       [name |-> "B", type |-> tb[1], status |-> tb[2]],
       [name |-> "C", type |-> "ECOG", status |-> "good"]>> :
        tb \in {<<"ECOG", "good">>, <<"SEEG", "good">>, <<"ECOG", "bad">>}}

PlStimTypes == {"ECOG", "SEEG"}

\* the sites stimulated, after split('-')
Sites == <<(<<"A", "B">>), (<<"B", "A">>), (<<"A", "C">>)>>

\* the sites of the events in turn, counts[s] events of site s
RECURSIVE RoundRobin(_, _)
RoundRobin(counts, k) ==
    IF k > MaxPerPair THEN <<>>
    ELSE SelectSeq(<<1, 2, 3>>, LAMBDA site : k <= counts[site]) \o RoundRobin(counts, k + 1)

\* an events.tsv: an optional first row (marked bad, or with a site without
\* a dash), then the stimulations at distinct onsets inside the recording
EventsOf(order, first) ==
    (IF first = "none" THEN <<>>
     ELSE <<[trial_type |-> "electrical_stimulation", onset |-> 6,
             status |-> IF first = "bad" THEN "bad" ELSE "good",
             site |-> IF first = "bad" THEN Sites[1] ELSE <<"AB">>]>>)
    \o [i \in 1..Len(order) |->
          [trial_type |-> "electrical_stimulation", onset |-> 6 + i, status |-> "good",
           site |-> Sites[order[i]]]]

EventTables ==
    {EventsOf(RoundRobin(<<nab, nba, nac>>, 1), first) :
        nab \in 0..MaxPerPair, nba \in 0..(MaxPerPair - 1), nac \in 0..(MaxPerPair - 2),
        first \in {"none", "bad", "nosite"}}

\* recordings long enough for every trial window
PlRec ==
    [name \in {"A", "B", "C"} |->
        [i \in 1..(RecLen + MaxPerPair) |->
            IF name = "A" THEN i * i ELSE IF name = "B" THEN 2 * i * i + 1 ELSE 40 - 3 * i]]

PlArgs ==
    [trial_epoch |-> EpTrialEpoch, baseline_norm |-> "median", baseline_epoch |-> <<-6, 0>>,
     out_of_bound_handling |-> "first_last_only"]

PlInputs ==
    {[channel_tsv |-> ct, events_tsv |-> ev, types |-> ty,
      concat_bidirectional_pairs |-> cc, minimum_stimpair_trials |-> mn,
      data_format |-> f, args |-> PlArgs] :
        ct \in ChannelTables, ev \in EventTables, ty \in {{"ECOG"}, PlStimTypes},
        cc \in BOOLEAN, mn \in {1, 2, 5}, f \in DataFormats}

\* the windows the detector is configured with: the search for peaks ends
\* with the epoch, or a sample after it
PlDetConfigs == {DetConfig("std_base", <<0, EpTrialEpoch[2]>>, <<0, EpTrialEpoch[2]>>),
                 DetConfig("std_base", <<0, EpTrialEpoch[2] + 2>>, <<0, EpTrialEpoch[2]>>)}

\* detection.negative and detection.positive: the negative responses
\* alone, both polarities, or neither
Polarities == {<<TRUE, FALSE>>, <<TRUE, TRUE>>, <<FALSE, FALSE>>}

PlIdle == [phase |-> "idle"]

\* process_subset up to the stim-pairs
SubsetRetrieve ==
    /\ pl.phase = "idle"
    /\ \E in \in PlInputs :
          pl' = PairsRetrieved("process_subset", in,
                          ChannelsOfTypes(in.channel_tsv, in.types),
                          ChannelsOfTypes(in.channel_tsv, PlStimTypes))
    /\ UNCHANGED <<det, ep, cf, run>>

\* the legacy flow up to the stim-pairs: one channel list for both uses
MainRunRetrieve ==
    /\ pl.phase = "idle"
    /\ \E in \in PlInputs :
          pl' = PairsRetrieved("main_run", in,
                          ChannelsOfTypes(in.channel_tsv, in.types),
                          ChannelsOfTypes(in.channel_tsv, in.types))
    /\ UNCHANGED <<det, ep, cf, run>>

\* process_subset reads and averages, then clears the stimulated channels
SubsetAverage ==
    /\ pl.phase = "pairs"
    /\ pl.flow = "process_subset"
    /\ pl' = WithAverages(pl,
                LoadDataEpochsAverages(PlRec, pl.in.data_format, pl.channels_measured,
                                       ConditionsOnsets(pl.stim_pairs), pl.in.args, TRUE),
                StimulatedRowsByName(pl.channels_measured, pl.stim_pairs))
    /\ UNCHANGED <<det, ep, cf, run>>

\* the legacy flow reads and averages, then clears the stimulated channels
MainRunAverage ==
    /\ pl.phase = "pairs"
    /\ pl.flow = "main_run"
    /\ pl' = WithAverages(pl,
                LoadDataEpochsAverages(PlRec, pl.in.data_format, pl.channels_measured,
                                       ConditionsOnsets(pl.stim_pairs), pl.in.args, TRUE),
                StimulatedRowsByIndex(pl.stim_pairs))
    /\ UNCHANGED <<det, ep, cf, run>>

\* the intermediate save of either flow
SaveCcepData ==
    /\ pl.phase = "averaged"
    /\ pl' = [pl EXCEPT !.phase = "saved", !.saved = OutputDict(pl),
                        !.effects = Append(pl.effects, "ccep_data.mat")]
    /\ UNCHANGED <<det, ep, cf, run>>

\* write_config(ccep_config.json) of either flow; its KeyError ends the flow
WriteSnapshot ==
    /\ pl.phase = "saved"
    /\ pl' = IF WriteConfigFile(cf.config).state = "raised" THEN PlFailed(pl, "Traceback")
             ELSE [pl EXCEPT !.phase = "snapshot", !.snapshot = WriteConfigFile(cf.config),
                             !.effects = Append(pl.effects, "ccep_config.json")]
    /\ UNCHANGED <<det, ep, cf, run>>

\* the legacy flow detects the N1s
MainRunDetect ==
    /\ pl.phase = "snapshot"
    /\ pl.flow = "main_run"
    /\ \E c \in PlDetConfigs : pl' = MainRunDetected(pl, c, PlDetectN1(pl, c))
    /\ UNCHANGED <<det, ep, cf, run>>

\* process_subset detects the responses of the polarities that are enabled
SubsetDetect ==
    /\ pl.phase = "snapshot"
    /\ pl.flow = "process_subset"
    /\ \E c \in PlDetConfigs, polarities \in Polarities :
          pl' = SubsetDetected(pl, c, polarities[1], polarities[2],
                               IeegDetectEr(pl, c, FALSE), IeegDetectEr(pl, c, TRUE))
    /\ UNCHANGED <<det, ep, cf, run>>

\* the save after the detection of either flow, to the same file
SaveDetection ==
    /\ pl.phase = "detected"
    /\ pl' = [pl EXCEPT !.phase = "extended", !.saved = DetectionDict(pl),
                        !.effects = Append(pl.effects, "ccep_data.mat")]
    /\ UNCHANGED <<det, ep, cf, run>>

\* the images of either flow, when one of the three kinds is enabled
GenerateImages ==
    /\ pl.phase = "extended"
    /\ pl' = [pl EXCEPT !.phase = "done",
                        !.effects =
                            IF \/ cf.config[<<"visualization", "generate_electrode_images">>]
                               \/ cf.config[<<"visualization", "generate_stimpair_images">>]
                               \/ cf.config[<<"visualization", "generate_matrix_images">>]
                            THEN Append(pl.effects, "images") ELSE pl.effects]
    /\ UNCHANGED <<det, ep, cf, run>>

\* the flow is over
PlDone ==
    /\ pl.phase \in {"done", "failed"}
    /\ pl' = PlIdle
    /\ UNCHANGED <<det, ep, cf, run>>

InitPipeline ==
    /\ det = DetIdle
    /\ ep = EpIdle
    /\ pl = PlIdle
    /\ cf = CfIdle(CreateDefaultConfig)
    /\ run = RunIdle

NextPipeline ==
    \/ SubsetRetrieve
    \/ MainRunRetrieve
    \/ SubsetAverage
    \/ MainRunAverage
    \/ SaveCcepData
    \/ WriteSnapshot
    \/ MainRunDetect
    \/ SubsetDetect
    \/ SaveDetection
    \/ GenerateImages
    \/ PlDone

SpecPipeline == InitPipeline /\ [][NextPipeline]_vars

(***************************************************************************)
(* Properties of the stim-pair conditions and of the averaged tensor       *)
(***************************************************************************)

\* the flow got as far as deciding which stim-pairs are retained
PairsDecided ==
    \/ pl.phase \in {"pairs", "averaged", "saved", "snapshot", "detected", "extended", "done"}
    \/ pl.phase = "failed" /\ pl.error \in {"No stimulus-pairs found", "N1 detection failed",
                                           "Evoked response detection failed", "Traceback"}

\* the onsets of the accepted events that stimulate x-y, in that direction
OnsetsOfSite(x, y) ==
    {pl.in.events_tsv[i].onset : i \in
        {k \in 1..Len(pl.in.events_tsv) : /\ pl.in.events_tsv[k].status = "good"
                                          /\ pl.in.events_tsv[k].onset >= 0
                                          /\ pl.in.events_tsv[k].site = <<x, y>>}}

\* the retained conditions named x-y
ConditionsNamed(x, y) ==
    {iPair \in 1..Len(pl.stim_pairs) : pl.stim_pairs[iPair].label = <<x, y>>}

\* x-y is one retained condition made of exactly the trials at these onsets
OneConditionOf(x, y, onsets) ==
    /\ Cardinality(ConditionsNamed(x, y)) = 1
    /\ \A iPair \in ConditionsNamed(x, y) :
          /\ Len(pl.stim_pairs[iPair].onsets) = Cardinality(onsets)
          /\ {pl.stim_pairs[iPair].onsets[t] : t \in 1..Len(pl.stim_pairs[iPair].onsets)}
                = onsets

\* x-y is retained, as one condition of these trials, iff they reach the minimum
RetainedIffEnough(x, y, onsets) ==
    IF Cardinality(onsets) > 0 /\ Cardinality(onsets) >= pl.in.minimum_stimpair_trials
    THEN OneConditionOf(x, y, onsets)
    ELSE ConditionsNamed(x, y) = {}

\* C5: with concat_bidirectional_pairs the trials of X-Y and of Y-X form one
\* condition, named with the channel that is first in the channel list
\* first, of as many trials as both directions together, retained iff that
\* sum reaches minimum_stimpair_trials; without it X-Y and Y-X are two
\* conditions, each retained iff its own count reaches the minimum
C5_StimPairConditions ==
    PairsDecided =>
        \A i0 \in 1..Len(pl.channels_stim), i1 \in 1..Len(pl.channels_stim) :
            i0 < i1 =>
                IF pl.in.concat_bidirectional_pairs
                THEN /\ RetainedIffEnough(pl.channels_stim[i0], pl.channels_stim[i1],
                            OnsetsOfSite(pl.channels_stim[i0], pl.channels_stim[i1])
                            \cup OnsetsOfSite(pl.channels_stim[i1], pl.channels_stim[i0]))
                     /\ ConditionsNamed(pl.channels_stim[i1], pl.channels_stim[i0]) = {}
                ELSE /\ RetainedIffEnough(pl.channels_stim[i0], pl.channels_stim[i1],
                            OnsetsOfSite(pl.channels_stim[i0], pl.channels_stim[i1]))
                     /\ RetainedIffEnough(pl.channels_stim[i1], pl.channels_stim[i0],
                            OnsetsOfSite(pl.channels_stim[i1], pl.channels_stim[i0]))

\* three A-B and two B-A trials with a minimum of five, concatenated into
\* the one condition A-B of five trials
C5_Witness ==
    /\ pl.phase = "pairs"
    /\ pl.in.concat_bidirectional_pairs
    /\ pl.in.minimum_stimpair_trials = 5
    /\ Cardinality(OnsetsOfSite("A", "B")) = 3
    /\ Cardinality(OnsetsOfSite("B", "A")) = 2
    /\ Len(pl.stim_pairs) = 1
    /\ pl.stim_pairs[1].label = <<"A", "B">>
    /\ Len(pl.stim_pairs[1].onsets) = 5

\* every sample of the row is NaN, and the row has the samples of an epoch
AllMissing(row) ==
    /\ Len(row) = ToSamples(pl.in.args.trial_epoch[2]) - ToSamples(pl.in.args.trial_epoch[1])
    /\ \A j \in 1..Len(row) : IsRNaN(row[j])

\* C1: after averaging, in both flows, for every retained stim-pair condition
\* and each of its two stimulated channels that is also a measured channel,
\* every sample of that channel's average in that condition is NaN, in the
\* tensor held by the flow and in the tensor written to ccep_data.mat
C1_StimulatedChannelsMissing ==
    /\ pl.phase \in {"averaged", "saved"} =>
          \A iPair \in 1..Len(pl.stim_pairs), m \in 1..Len(pl.channels_measured) :
              pl.channels_measured[m] \in {pl.stim_pairs[iPair].label[1],
                                           pl.stim_pairs[iPair].label[2]}
                  => AllMissing(pl.averages[m][iPair])
    /\ pl.phase = "saved" =>
          \A iPair \in 1..Len(pl.saved.stimpair_labels),
             m \in 1..Len(pl.saved.channel_labels) :
              pl.saved.channel_labels[m] \in {pl.saved.stimpair_labels[iPair][1],
                                              pl.saved.stimpair_labels[iPair][2]}
                  => AllMissing(pl.saved.ccep_average[m][iPair])

\* process_subset saved a tensor in which a condition has both its channels
\* measured and cleared, another has a stimulated channel that is not
\* measured, and a channel that was not stimulated kept its average
C1_Witness ==
    /\ pl.phase = "saved"
    /\ pl.flow = "process_subset"
    /\ \E iPair \in 1..Len(pl.stim_pairs) :
          /\ \A k \in 1..2 : IndexOf(pl.channels_measured, pl.stim_pairs[iPair].label[k]) >= 0
          /\ \A k \in 1..2 :
                AllMissing(pl.saved.ccep_average[
                    IndexOf(pl.channels_measured, pl.stim_pairs[iPair].label[k]) + 1][iPair])
    /\ \E iPair \in 1..Len(pl.stim_pairs) :
          /\ IndexOf(pl.channels_measured, pl.stim_pairs[iPair].label[2]) = -1
          /\ \E m \in 1..Len(pl.channels_measured) :
                \A j \in 1..Len(pl.saved.ccep_average[m][iPair]) :
                    ~IsRNaN(pl.saved.ccep_average[m][iPair][j])

(***************************************************************************)
(* The configuration files and the calls of set that are explored          *)
(***************************************************************************)

JsonFile(doc) == [state |-> "json", doc |-> doc]

NumRange(a, b) == JValue("list", "num", <<a, b>>)

\* n1_detect.std_base as a document has to give it for the default method
StdBaseDoc ==
    (<<"n1_detect", "std_base", "baseline_epoch">> :> NumRange(-5000, -1000)) @@
    (<<"n1_detect", "std_base", "baseline_threshold_factor">> :> JValue("num", "", 40))

\* a shorter trial epoch, a policy in capitals and three trials as a minimum
ShortTrialDoc ==
    (<<"trials", "trial_epoch">> :> NumRange(-5000, 10000)) @@
    (<<"trials", "out_of_bounds_handling">> :> JValue("str", "", "Allow")) @@
    (<<"trials", "minimum_stimpair_trials">> :> JValue("num", "", 30)) @@
    (<<"channels", "types">> :> JValue("list", "str", <<"ecog", "SEEG">>)) @@
    StdBaseDoc

ConfigFiles ==
    ("missing.json" :> [state |-> "unreadable", doc |-> <<>>]) @@
    ("malformed.json" :> [state |-> "malformed", doc |-> <<>>]) @@
    ("empty.json" :> JsonFile(<<>>)) @@
    ("short_trial.json" :> JsonFile(ShortTrialDoc)) @@
    ("cross_proj.json" :> JsonFile(
        (<<"n1_detect", "method">> :> JValue("str", "", "cross_proj")) @@
        (<<"n1_detect", "cross_proj", "threshold">> :> JValue("num", "", 35)))) @@
    ("cross_proj_capitals.json" :> JsonFile(
        (<<"n1_detect", "method">> :> JValue("str", "", "Cross_Proj")))) @@
    ("no_threshold.json" :> JsonFile(
        (<<"n1_detect", "method">> :> JValue("str", "", "cross_proj")))) @@
    ("waveform_no_threshold.json" :> JsonFile(
        (<<"n1_detect", "method">> :> JValue("str", "", "waveform")))) @@
    ("numeric_string.json" :> JsonFile(
        (<<"trials", "minimum_stimpair_trials">> :> JValue("numstr", "", 40)) @@ StdBaseDoc)) @@
    ("epoch_is_string.json" :> JsonFile(
        (<<"trials", "trial_epoch">> :> JValue("str", "", "abc")) @@ StdBaseDoc)) @@
    ("policy_skip.json" :> JsonFile(
        (<<"trials", "trial_epoch">> :> NumRange(-5000, 10000)) @@
        (<<"trials", "out_of_bounds_handling">> :> JValue("str", "", "skip")) @@ StdBaseDoc)) @@
    ("half_trial.json" :> JsonFile(
        (<<"trials", "concat_bidirectional_pairs">> :> JValue("num", "", 0)) @@
        (<<"trials", "minimum_stimpair_trials">> :> JValue("num", "", 25)) @@ StdBaseDoc)) @@
    ("no_types.json" :> JsonFile(
        (<<"channels", "types">> :> JValue("list", "str", <<>>)) @@ StdBaseDoc)) @@
    ("type_xyz.json" :> JsonFile(
        (<<"channels", "types">> :> JValue("list", "str", <<"ecog", "xyz">>)) @@ StdBaseDoc)) @@
    ("types_numbers.json" :> JsonFile(
        (<<"channels", "types">> :> JValue("list", "num", <<1, 2>>)) @@ StdBaseDoc)) @@
    ("search_before_onset.json" :> JsonFile(
        (<<"trials", "baseline_norm">> :> JValue("str", "", "mean")) @@
        (<<"n1_detect", "peak_search_epoch">> :> NumRange(-100, 5000)) @@ StdBaseDoc)) @@
    ("epoch_reversed.json" :> JsonFile(
        (<<"trials", "trial_epoch">> :> NumRange(5000, -5000)) @@ StdBaseDoc)) @@
    ("epoch_after_onset.json" :> JsonFile(
        (<<"trials", "trial_epoch">> :> NumRange(0, 20000)) @@ StdBaseDoc)) @@
    ("bandpass_reversed.json" :> JsonFile(
        (<<"metrics", "waveform", "bandpass">> :> NumRange(300, 100)) @@ StdBaseDoc)) @@
    ("bandpass_equal.json" :> JsonFile(
        (<<"metrics", "waveform", "bandpass">> :> NumRange(100, 100)) @@ StdBaseDoc)) @@
    ("bandpass_zero.json" :> JsonFile(
        (<<"metrics", "waveform", "bandpass">> :> NumRange(0, 300)) @@ StdBaseDoc)) @@
    ("bandpass_reversed_only.json" :> JsonFile(
        (<<"metrics", "waveform", "bandpass">> :> NumRange(300, 100)))) @@
    ("metrics_off.json" :> JsonFile(
        (<<"metrics", "cross_proj", "enabled">> :> JValue("bool", "", FALSE)) @@
        (<<"metrics", "waveform", "enabled">> :> JValue("bool", "", FALSE)) @@ StdBaseDoc)) @@
    ("waveform_off.json" :> JsonFile(
        (<<"metrics", "waveform", "enabled">> :> JValue("bool", "", FALSE)) @@
        (<<"n1_detect", "method">> :> JValue("str", "", "waveform")) @@
        (<<"n1_detect", "waveform", "threshold">> :> JValue("num", "", 5000)))) @@
    ("factor_zero.json" :> JsonFile(
        (<<"n1_detect", "std_base", "baseline_epoch">> :> NumRange(-5000, -1000)) @@
        (<<"n1_detect", "std_base", "baseline_threshold_factor">> :> JValue("num", "", 0)))) @@
    ("factor_negative.json" :> JsonFile(
        (<<"n1_detect", "std_base", "baseline_epoch">> :> NumRange(-5000, -1000)) @@
        (<<"n1_detect", "std_base", "baseline_threshold_factor">> :> JValue("num", "", -10)))) @@
    ("threshold_zero.json" :> JsonFile(
        (<<"n1_detect", "method">> :> JValue("str", "", "waveform")) @@
        (<<"n1_detect", "waveform", "threshold">> :> JValue("num", "", 0))))

\* calls set(value, level1, level2[, level3])
SetCalls ==
    <<[key |-> <<"trials", "minimum_stimpair_trials">>, value |-> 10],
      [key |-> <<"trials", "concat_bidirectional_pairs">>, value |-> FALSE],
      [key |-> <<"n1_detect", "std_base", "baseline_threshold_factor">>, value |-> 25],
      [key |-> <<"n1_detect", "cross_proj", "threshold">>, value |-> 40],
      [key |-> <<"detection", "std_base", "baseline_threshold_factor">>, value |-> 25]>>

\* a call of set, rem or get that has returned or raised
CfCalled(op, key, outcome) ==
    [phase |-> "called", config |-> outcome.config, filepath |-> "",
     result |-> outcome.status, op |-> op, key |-> key]

\* set(value, level1, level2, level3)
SetConfig ==
    /\ cf.phase = "idle"
    /\ \E i \in 1..Len(SetCalls) :
          cf' = CfCalled("set", SetCalls[i].key,
                         ConfigSet(cf.config, SetCalls[i].value, SetCalls[i].key))
    /\ UNCHANGED <<det, ep, pl, run>>

\* load_config(filepath)
LoadConfig ==
    /\ cf.phase = "idle"
    /\ \E filepath \in DOMAIN ConfigFiles :
          cf' = [phase |-> "returned",
                 config |-> Replaced(cf.config, LoadConfigOutcome(ConfigFiles[filepath])),
                 filepath |-> filepath,
                 result |-> LoadConfigOutcome(ConfigFiles[filepath]).status]
    /\ UNCHANGED <<det, ep, pl, run>>

\* write_config(filepath)
WriteConfig ==
    /\ cf.phase = "idle"
    /\ cf' = [phase |-> "written", config |-> cf.config, filepath |-> "written.json",
              result |-> IF WriteConfigFile(cf.config).state = "raised" THEN "raised" ELSE "None",
              written |-> WriteConfigFile(cf.config)]
    /\ UNCHANGED <<det, ep, pl, run>>

\* load_config(filepath) of the file write_config has just written
LoadWritten ==
    /\ cf.phase = "written"
    /\ cf.result = "None"
    /\ cf' = [phase |-> "returned",
              config |-> Replaced(cf.config, LoadConfigOutcome(cf.written)),
              filepath |-> cf.filepath,
              result |-> LoadConfigOutcome(cf.written).status]
    /\ UNCHANGED <<det, ep, pl, run>>

\* the paths rem is called with: values and dictionaries that are there by
\* default, and paths into dictionaries that are not
RemCalls ==
    <<(<<"n1_detect", "std_base", "baseline_threshold_factor">>),
      (<<"n1_detect", "cross_proj", "threshold">>),
      (<<"trials", "minimum_stimpair_trials">>),
      (<<"n1_detect", "std_base">>),
      (<<"detection", "std_base">>)>>

\* rem(level1, level2, level3)
RemConfig ==
    /\ cf.phase = "idle"
    /\ \E i \in 1..Len(RemCalls) :
          cf' = CfCalled("rem", RemCalls[i], ConfigRem(cf.config, RemCalls[i]))
    /\ UNCHANGED <<det, ep, pl, run>>

\* get(level1, level2, level3) of a path that set or rem is called with
GetConfig ==
    /\ cf.phase = "idle"
    /\ \E key \in {SetCalls[i].key : i \in 1..Len(SetCalls)}
                    \cup {RemCalls[i] : i \in 1..Len(RemCalls)} :
          cf' = [phase |-> "called", config |-> cf.config, filepath |-> "",
                 result |-> ConfigGet(cf.config, key).status, op |-> "get", key |-> key,
                 value |-> ConfigGet(cf.config, key).value]
    /\ UNCHANGED <<det, ep, pl, run>>

\* what --method is given as, "" when it is not given
MethodArgs == {"", "std_base", "cross_proj", "waveform", "std"}

\* the commands after the configuration file is read, up to the metrics of
\* the method; the run goes on with this configuration or has exited
Configure ==
    /\ cf.phase = "idle" \/ (cf.phase = "returned" /\ cf.result = "ok")
    /\ \E method \in MethodArgs :
          cf' = [phase |-> "configured",
                 config |-> Configured(cf.config, method).config,
                 filepath |-> cf.filepath,
                 result |-> Configured(cf.config, method).status,
                 method |-> method,
                 warned |-> MetricsWarned(MethodArgument(cf.config, method))]
    /\ UNCHANGED <<det, ep, pl, run>>

\* the caller goes on
ConfigDone ==
    /\ cf.phase \in {"returned", "written", "called"}
    /\ cf' = CfIdle(cf.config)
    /\ UNCHANGED <<det, ep, pl, run>>

InitConfig ==
    /\ det = DetIdle
    /\ ep = EpIdle
    /\ pl = PlIdle
    /\ cf = CfIdle(CreateDefaultConfig)
    /\ run = RunIdle

NextConfig ==
    \/ SetConfig
    \/ LoadConfig
    \/ WriteConfig
    \/ LoadWritten
    \/ Configure
    \/ ConfigDone

SpecConfig == InitConfig /\ [][NextConfig]_vars

\* the calls of set, rem and get on the configuration of the module
NextStore ==
    \/ SetConfig
    \/ RemConfig
    \/ GetConfig
    \/ ConfigDone

SpecStore == InitConfig /\ [][NextStore]_vars

(***************************************************************************)
(* Properties of load_config                                               *)
(***************************************************************************)

\* the paths of the values of a configuration
Leaves(config) == DOMAIN config \ {Dicts}

\* the settings of the document that are ranges
RangesOf(doc) == {key \in DOMAIN doc : IsValidNumericRange(doc[key])}

\* C10: when load_config does not succeed (a file that cannot be read or
\* parsed, a wrongly typed or disallowed value, a failed validation check)
\* the configuration read through get and get_config_dict is what it was
\* before the call; when it succeeds the configuration is replaced as a
\* whole: what the document does not give is the default, whatever had been
\* set before, and the ranges it gives are those of the document
C10_FailedLoadKeepsConfig ==
    [][(cf.phase = "idle" /\ cf'.phase = "returned") =>
          IF cf'.result = "ok"
          THEN /\ \A key \in Leaves(cf'.config) \ DOMAIN ConfigFiles[cf'.filepath].doc :
                     /\ key \in DOMAIN CreateDefaultConfig
                     /\ cf'.config[key] = CreateDefaultConfig[key]
               /\ \A key \in RangesOf(ConfigFiles[cf'.filepath].doc) :
                     /\ key \in DOMAIN cf'.config
                     /\ cf'.config[key] = ConfigFiles[cf'.filepath].doc[key].v
          ELSE cf'.config = cf.config]_vars

\* a load that fails at the minimum number of trials, after it had taken
\* concat_bidirectional_pairs from the document, returned with the
\* configuration that set had changed from the default
C10_Witness ==
    /\ cf.phase = "returned"
    /\ cf.filepath = "half_trial.json"
    /\ cf.result = "False"
    /\ cf.config[<<"trials", "minimum_stimpair_trials">>] = 10
    /\ cf.config[<<"trials", "concat_bidirectional_pairs">>]

\* C11: load_config succeeds on a JSON object that omits recognized keys,
\* the empty object and a document that names the method without that
\* method's parameters included, and every omitted field then holds its
\* default: std_base baseline_epoch (-1, -0.1) and factor 3.4, cross_proj
\* threshold 3.5, waveform threshold 1000
C11_OmittedKeysDefault ==
    (cf.phase = "returned" /\ cf.filepath \in {"empty.json", "no_threshold.json",
                                               "waveform_no_threshold.json"}) =>
        /\ cf.result = "ok"
        /\ \A key \in Leaves(CreateDefaultConfig) \ {<<"n1_detect", "method">>,
                    <<"n1_detect", "std_base", "baseline_epoch">>,
                    <<"n1_detect", "std_base", "baseline_threshold_factor">>} :
              key \in DOMAIN cf.config /\ cf.config[key] = CreateDefaultConfig[key]
        /\ cf.filepath = "empty.json" =>
              /\ cf.config[<<"n1_detect", "std_base", "baseline_epoch">>] = <<-10000, -1000>>
              /\ cf.config[<<"n1_detect", "std_base", "baseline_threshold_factor">>] = 34
        /\ cf.filepath = "no_threshold.json" =>
              cf.config[<<"n1_detect", "cross_proj", "threshold">>] = 35
        /\ cf.filepath = "waveform_no_threshold.json" =>
              cf.config[<<"n1_detect", "waveform", "threshold">>] = 10000

\* the configuration holds every value write_config reads and passes
\* __check_config
ValidConfig(config) ==
    /\ <<"n1_detect", "method">> \in DOMAIN config
    /\ WrittenLeaves(ConfigStr(config)) \subseteq DOMAIN config
    /\ CheckConfig(config, 1) = "ok"

\* C12: for a live configuration that passes the validation checks,
\* write_config(path) followed by load_config(path) returns success and
\* leaves every recognized field with the value it had before the write
C12_WriteLoadRoundTrip ==
    [][(cf.phase = "written" /\ cf'.phase = "returned" /\ ValidConfig(cf.config)) =>
          /\ cf'.result = "ok"
          /\ \A path \in WrittenLeaves(ConfigStr(cf.config)) :
                path \in DOMAIN cf'.config /\ cf'.config[path] = cf.config[path]]_vars

\* the document gives a range for the setting and the range satisfies bad
GivesRange(doc, key, bad(_)) ==
    key \in DOMAIN doc /\ IsValidNumericRange(doc[key]) /\ bad(doc[key].v)

\* C13: load_config returns failure for every configuration file in which
\* trials.trial_epoch has end <= start or start >= 0, or in which
\* metrics.waveform.bandpass has upper <= lower or a bound that is not
\* positive: trial_epoch (0.5, -0.5), bandpass (30, 10) and (10, 10) are
\* rejected
C13_RangeValidation ==
    (/\ cf.phase = "returned"
     /\ cf.filepath \in DOMAIN ConfigFiles
     /\ ConfigFiles[cf.filepath].state = "json"
     /\ \/ GivesRange(ConfigFiles[cf.filepath].doc, <<"trials", "trial_epoch">>,
                      LAMBDA v : v[2] <= v[1] \/ v[1] >= 0)
        \/ GivesRange(ConfigFiles[cf.filepath].doc, <<"metrics", "waveform", "bandpass">>,
                      LAMBDA v : v[2] <= v[1] \/ v[1] <= 0 \/ v[2] <= 0))
    => cf.result = "False"

\* the threshold or factor of the method the document selects
ThresholdKey(doc) ==
    IF <<"n1_detect", "method">> \notin DOMAIN doc
    THEN <<"n1_detect", "std_base", "baseline_threshold_factor">>
    ELSE CASE doc[<<"n1_detect", "method">>].v = "std_base" ->
                  <<"n1_detect", "std_base", "baseline_threshold_factor">>
           [] doc[<<"n1_detect", "method">>].v = "cross_proj" -> <<"n1_detect", "cross_proj", "threshold">>
           [] doc[<<"n1_detect", "method">>].v = "waveform" -> <<"n1_detect", "waveform", "threshold">>
           [] OTHER -> <<>>

\* C14: load_config returns failure for every configuration file whose
\* threshold or factor of the selected method is not strictly positive, the
\* value 0 included
C14_ThresholdPositive ==
    (/\ cf.phase = "returned"
     /\ cf.filepath \in DOMAIN ConfigFiles
     /\ ConfigFiles[cf.filepath].state = "json"
     /\ ThresholdKey(ConfigFiles[cf.filepath].doc) \in DOMAIN ConfigFiles[cf.filepath].doc
     /\ IsNumber(ConfigFiles[cf.filepath].doc[ThresholdKey(ConfigFiles[cf.filepath].doc)])
     /\ ConfigFiles[cf.filepath].doc[ThresholdKey(ConfigFiles[cf.filepath].doc)].v <= 0)
    => cf.result = "False"

\* the value the calls of set give a path
SetValue(key) == SetCalls[CHOOSE i \in 1..Len(SetCalls) : SetCalls[i].key = key].value

MethodDefaults(method) ==
    CASE method = "std_base" ->
            (<<"n1_detect", "std_base", "baseline_epoch">> :> <<-10000, -1000>>) @@
            (<<"n1_detect", "std_base", "baseline_threshold_factor">> :> 34)
      [] method = "cross_proj" -> (<<"n1_detect", "cross_proj", "threshold">> :> 35)
      [] method = "waveform" -> (<<"n1_detect", "waveform", "threshold">> :> 10000)

\* C16: after the command line is processed with --method M, M one of
\* std_base, cross_proj and waveform, whatever configuration was loaded or
\* set before: the method is M, the detection group holds the sub-group of
\* M with its fixed defaults and no sub-group of the other two methods, and
\* for cross_proj and waveform the metric of M is enabled, with a warning
\* exactly when it was off
C16_MethodOverride ==
    [][(cf.phase # "configured" /\ cf'.phase = "configured"
        /\ cf'.method \in {"std_base", "cross_proj", "waveform"}) =>
          /\ cf'.result = "None"
          /\ cf'.config[<<"n1_detect", "method">>] = cf'.method
          /\ \A m \in {"std_base", "cross_proj", "waveform"} :
                <<"n1_detect", m>> \in cf'.config[Dicts] <=> m = cf'.method
          /\ {k \in Leaves(cf'.config) : Len(k) = 3 /\ k[1] = "n1_detect"}
                = DOMAIN MethodDefaults(cf'.method)
          /\ \A k \in DOMAIN MethodDefaults(cf'.method) :
                cf'.config[k] = MethodDefaults(cf'.method)[k]
          /\ cf'.method # "std_base" =>
                /\ cf'.config[<<"metrics", cf'.method, "enabled">>] = TRUE
                /\ cf'.warned = IF cf.config[<<"metrics", cf'.method, "enabled">>]
                                 THEN {} ELSE {cf'.method}]_vars

\* --method waveform after a file that selects std_base with a factor of its
\* own and turns the metrics off: the waveform metric is enabled with a
\* warning, the threshold is the default and std_base is gone
C16_Witness ==
    /\ cf.phase = "configured"
    /\ cf.filepath = "metrics_off.json"
    /\ cf.method = "waveform"
    /\ cf.warned = {"waveform"}
    /\ cf.config[<<"metrics", "waveform", "enabled">>]
    /\ cf.config[<<"n1_detect", "waveform", "threshold">>] = 10000
    /\ <<"n1_detect", "std_base">> \notin cf.config[Dicts]

(***************************************************************************)
(* Properties of the files a subset leaves                                 *)
(***************************************************************************)

\* the effects of a subset in the order stated
EffectOrder == <<"ccep_data.mat", "ccep_config.json", "detection", "ccep_data.mat", "images">>

\* the detector fails for a polarity that is enabled
DetectorFails(s) ==
    \/ s.detection.negative /\ IeegDetectEr(s, s.detection.c, FALSE).status # "ok"
    \/ s.detection.positive /\ IeegDetectEr(s, s.detection.c, TRUE).status # "ok"

\* the arrays that only the bundle written after the detection holds
PeakArrays ==
    {"n1_peak_indices", "n1_peak_amplitudes", "neg_peak_latency_samples",
     "neg_peak_amplitudes", "pos_peak_latency_samples", "pos_peak_amplitudes"}

\* C17: in every run of either flow the effects come in the order first
\* bundle, configuration snapshot, detection, second bundle to the same
\* file, images; the second bundle is written only if the detection
\* succeeded for every enabled polarity; when it fails the flow ends in
\* failure, the results file still holds the first bundle, without the
\* arrays of the detection, and no image has been written
C17_EffectOrder ==
    pl.phase # "idle" =>
        /\ \E n \in 0..Len(EffectOrder) : pl.effects = SubSeq(EffectOrder, 1, n)
        /\ Len(pl.effects) >= 3 => (pl.phase = "failed" <=> DetectorFails(pl))
        /\ Len(pl.effects) >= 4 =>
              /\ pl.phase # "failed"
              /\ pl.detection.negative => pl.detection.neg # <<>>
              /\ pl.detection.positive => pl.detection.pos # <<>>
        /\ (pl.phase = "failed" /\ Len(pl.effects) = 3) =>
              /\ pl.saved = OutputDict(pl)
              /\ DOMAIN pl.saved \cap PeakArrays = {}

\* process_subset has written both bundles, the second with the arrays of
\* both polarities, and then the images
C17_Witness ==
    /\ pl.phase = "done"
    /\ pl.flow = "process_subset"
    /\ pl.effects = EffectOrder
    /\ pl.detection.negative /\ pl.detection.positive
    /\ {"neg_peak_amplitudes", "pos_peak_amplitudes"} \subseteq DOMAIN pl.saved

(***************************************************************************)
(* src/erdetect/main_cli.py : execute, from the list of the datasets on    *)
(***************************************************************************)

\* process_subset up to the averages
SubsetAverages(subset) ==
    IF PairsRetrieved("process_subset", subset.in,
                      ChannelsOfTypes(subset.in.channel_tsv, subset.in.types),
                      ChannelsOfTypes(subset.in.channel_tsv, PlStimTypes)).phase = "failed"
    THEN PairsRetrieved("process_subset", subset.in,
                        ChannelsOfTypes(subset.in.channel_tsv, subset.in.types),
                        ChannelsOfTypes(subset.in.channel_tsv, PlStimTypes))
    ELSE WithAverages(
            PairsRetrieved("process_subset", subset.in,
                           ChannelsOfTypes(subset.in.channel_tsv, subset.in.types),
                           ChannelsOfTypes(subset.in.channel_tsv, PlStimTypes)),
            LoadDataEpochsAverages(PlRec, subset.in.data_format,
                ChannelsOfTypes(subset.in.channel_tsv, subset.in.types),
                ConditionsOnsets(PairsRetrieved("process_subset", subset.in,
                    ChannelsOfTypes(subset.in.channel_tsv, subset.in.types),
                    ChannelsOfTypes(subset.in.channel_tsv, PlStimTypes)).stim_pairs),
                subset.in.args, TRUE),
            StimulatedRowsByName(
                ChannelsOfTypes(subset.in.channel_tsv, subset.in.types),
                PairsRetrieved("process_subset", subset.in,
                    ChannelsOfTypes(subset.in.channel_tsv, subset.in.types),
                    ChannelsOfTypes(subset.in.channel_tsv, PlStimTypes)).stim_pairs))

\* process_subset(subset, ...) as execute sees it: it returns, or it raises
\* the RuntimeError of the stage that failed
ProcessSubset(subset) ==
    IF SubsetAverages(subset).phase = "failed" THEN "RuntimeError"
    ELSE IF SubsetDetected(SubsetAverages(subset), subset.c,
                           subset.polarities[1], subset.polarities[2],
                           IeegDetectEr(SubsetAverages(subset), subset.c, FALSE),
                           IeegDetectEr(SubsetAverages(subset), subset.c, TRUE)).phase = "failed"
    THEN "RuntimeError"
    ELSE "returned"

\* for (subject, subsets) in datasets.items(): for subset in subsets
RECURSIVE InDiscoveryOrder(_)
InDiscoveryOrder(datasets) ==
    IF datasets = <<>> THEN <<>>
    ELSE Head(datasets).subsets \o InDiscoveryOrder(Tail(datasets))

\* execute has returned
RunReturned(r, code) == [r EXCEPT !.phase = "returned", !.code = code]

\* one pass of the loop that goes on although process_subset raised
AfterSubsetCarryOn(r, outcome) ==
    [r EXCEPT !.started = Append(r.started, Head(r.todo)),
              !.processed = Append(r.processed, Head(r.todo)), !.todo = Tail(r.todo)]

\* one pass of the loop: the except clause returns 1
AfterSubset(r, outcome) ==
    IF outcome = "RuntimeError"
    THEN RunReturned([r EXCEPT !.started = Append(r.started, Head(r.todo))], 1)
    ELSE [r EXCEPT !.started = Append(r.started, Head(r.todo)),
                   !.processed = Append(r.processed, Head(r.todo)), !.todo = Tail(r.todo)]

(***************************************************************************)
(* The datasets that are explored                                          *)
(***************************************************************************)

\* the subsets by name: one that is processed to the end, one whose
\* detection fails, one whose events name a site without a dash, and two
\* more that are processed to the end
SubsetsByName ==
    ("sub-01_task-a" :>
        [in |-> [channel_tsv |-> <<[name |-> "A", type |-> "ECOG", status |-> "good"],
                                   [name |-> "B", type |-> "ECOG", status |-> "good"],
                                   [name |-> "C", type |-> "ECOG", status |-> "good"]>>,
                 events_tsv |-> EventsOf(<<1, 3, 1>>, "none"), types |-> {"ECOG"},
                 concat_bidirectional_pairs |-> TRUE, minimum_stimpair_trials |-> 1,
                 data_format |-> 0, args |-> PlArgs],
         c |-> DetConfig("std_base", <<0, EpTrialEpoch[2]>>, <<0, EpTrialEpoch[2]>>),
         polarities |-> <<TRUE, FALSE>>]) @@
    ("sub-01_task-b" :>
        [in |-> [channel_tsv |-> <<[name |-> "A", type |-> "ECOG", status |-> "good"],
                                   [name |-> "B", type |-> "ECOG", status |-> "good"],
                                   [name |-> "C", type |-> "ECOG", status |-> "good"]>>,
                 events_tsv |-> EventsOf(<<1, 3, 1>>, "none"), types |-> {"ECOG"},
                 concat_bidirectional_pairs |-> TRUE, minimum_stimpair_trials |-> 1,
                 data_format |-> 0, args |-> PlArgs],
         c |-> DetConfig("std_base", <<0, EpTrialEpoch[2] + 2>>, <<0, EpTrialEpoch[2]>>),
         polarities |-> <<TRUE, TRUE>>]) @@
    ("sub-02_task-a" :>
        [in |-> [channel_tsv |-> <<[name |-> "A", type |-> "ECOG", status |-> "good"],
                                   [name |-> "B", type |-> "ECOG", status |-> "good"],
                                   [name |-> "C", type |-> "ECOG", status |-> "good"]>>,
                 events_tsv |-> EventsOf(<<1, 3, 1>>, "nosite"), types |-> {"ECOG"},
                 concat_bidirectional_pairs |-> TRUE, minimum_stimpair_trials |-> 1,
                 data_format |-> 0, args |-> PlArgs],
         c |-> DetConfig("std_base", <<0, EpTrialEpoch[2]>>, <<0, EpTrialEpoch[2]>>),
         polarities |-> <<TRUE, FALSE>>]) @@
    ("sub-02_task-b" :>
        [in |-> [channel_tsv |-> <<[name |-> "A", type |-> "ECOG", status |-> "good"],
                                   [name |-> "B", type |-> "SEEG", status |-> "good"],
                                   [name |-> "C", type |-> "ECOG", status |-> "good"]>>,
                 events_tsv |-> EventsOf(<<1, 2>>, "bad"), types |-> {"ECOG", "SEEG"},
                 concat_bidirectional_pairs |-> FALSE, minimum_stimpair_trials |-> 1,
                 data_format |-> 2, args |-> PlArgs],
         c |-> DetConfig("std_base", <<0, EpTrialEpoch[2]>>, <<0, EpTrialEpoch[2]>>),
         polarities |-> <<TRUE, TRUE>>]) @@
    ("sub-01_task-c" :>
        [in |-> [channel_tsv |-> <<[name |-> "A", type |-> "ECOG", status |-> "good"],
                                   [name |-> "B", type |-> "ECOG", status |-> "bad"],
                                   [name |-> "C", type |-> "ECOG", status |-> "good"]>>,
                 events_tsv |-> EventsOf(<<3, 3>>, "none"), types |-> {"ECOG"},
                 concat_bidirectional_pairs |-> FALSE, minimum_stimpair_trials |-> 2,
                 data_format |-> 0, args |-> PlArgs],
         c |-> DetConfig("std_base", <<0, EpTrialEpoch[2]>>, <<0, EpTrialEpoch[2]>>),
         polarities |-> <<FALSE, FALSE>>])

\* the subsets the lister finds for a subject, in the orders it may give
SubsetLists(subject) ==
    IF subject = "sub-01"
    THEN {<<"sub-01_task-a">>, <<"sub-01_task-b">>, <<"sub-01_task-a", "sub-01_task-b">>,
          <<"sub-01_task-b", "sub-01_task-a">>, <<"sub-01_task-a", "sub-01_task-c">>,
          <<"sub-01_task-c", "sub-01_task-b">>}
    ELSE {<<"sub-02_task-a">>, <<"sub-02_task-b">>, <<"sub-02_task-a", "sub-02_task-b">>,
          <<"sub-02_task-b", "sub-02_task-a">>}

\* what list_bids_datasets returns: only subjects that have subsets
DatasetLists ==
    {<<>>}
    \cup {<<[subject |-> subject, subsets |-> l]>> :
              subject \in {"sub-01"}, l \in SubsetLists("sub-01")}
    \cup {<<[subject |-> "sub-02", subsets |-> l]>> : l \in SubsetLists("sub-02")}
    \cup {<<[subject |-> "sub-01", subsets |-> l1], [subject |-> "sub-02", subsets |-> l2]>> :
              l1 \in SubsetLists("sub-01"), l2 \in SubsetLists("sub-02")}
    \cup {<<[subject |-> "sub-02", subsets |-> l2], [subject |-> "sub-01", subsets |-> l1]>> :
              l1 \in SubsetLists("sub-01"), l2 \in SubsetLists("sub-02")}

\* execute lists the datasets; without datasets it warns and returns 0
ListDatasets ==
    /\ run.phase = "idle"
    /\ \E datasets \in DatasetLists :
          run' = [phase |-> IF Len(datasets) = 0 THEN "returned" ELSE "processing",
                  datasets |-> datasets, todo |-> InDiscoveryOrder(datasets),
                  started |-> <<>>, processed |-> <<>>, code |-> 0]
    /\ UNCHANGED <<det, ep, pl, cf>>

\* one pass of the loop over the subsets
ProcessNextSubset ==
    /\ run.phase = "processing"
    /\ run.todo # <<>>
    /\ run' = AfterSubset(run, ProcessSubset(SubsetsByName[Head(run.todo)]))
    /\ UNCHANGED <<det, ep, pl, cf>>

\* the loop is over: return 0
ExecuteReturns ==
    /\ run.phase = "processing"
    /\ run.todo = <<>>
    /\ run' = RunReturned(run, 0)
    /\ UNCHANGED <<det, ep, pl, cf>>

\* sys.exit(execute())
RunDone ==
    /\ run.phase = "returned"
    /\ run' = RunIdle
    /\ UNCHANGED <<det, ep, pl, cf>>

NextExecute ==
    \/ ListDatasets
    \/ ProcessNextSubset
    \/ ExecuteReturns
    \/ RunDone

SpecExecute == InitConfig /\ [][NextExecute]_vars

(***************************************************************************)
(* src/main_run.py : the subjects and the subsets of the legacy script.    *)
(* A name is the sequence of the parts that its dashes separate            *)
(***************************************************************************)

\* the legacy flow up to the averages
MainRunAverages(subset) ==
    IF PairsRetrieved("main_run", subset.in,
                      ChannelsOfTypes(subset.in.channel_tsv, subset.in.types),
                      ChannelsOfTypes(subset.in.channel_tsv, subset.in.types)).phase = "failed"
    THEN PairsRetrieved("main_run", subset.in,
                        ChannelsOfTypes(subset.in.channel_tsv, subset.in.types),
                        ChannelsOfTypes(subset.in.channel_tsv, subset.in.types))
    ELSE WithAverages(
            PairsRetrieved("main_run", subset.in,
                           ChannelsOfTypes(subset.in.channel_tsv, subset.in.types),
                           ChannelsOfTypes(subset.in.channel_tsv, subset.in.types)),
            LoadDataEpochsAverages(PlRec, subset.in.data_format,
                ChannelsOfTypes(subset.in.channel_tsv, subset.in.types),
                ConditionsOnsets(PairsRetrieved("main_run", subset.in,
                    ChannelsOfTypes(subset.in.channel_tsv, subset.in.types),
                    ChannelsOfTypes(subset.in.channel_tsv, subset.in.types)).stim_pairs),
                subset.in.args, TRUE),
            StimulatedRowsByIndex(
                PairsRetrieved("main_run", subset.in,
                    ChannelsOfTypes(subset.in.channel_tsv, subset.in.types),
                    ChannelsOfTypes(subset.in.channel_tsv, subset.in.types)).stim_pairs))

\* the body of the loop over the subsets: it ends, or the script exits
MainRunSubset(subset) ==
    IF MainRunAverages(subset).phase = "failed" THEN "exit(1)"
    ELSE IF MainRunDetected(MainRunAverages(subset), subset.c,
                            PlDetectN1(MainRunAverages(subset), subset.c)).phase = "failed"
    THEN "exit(1)"
    ELSE "finished"

\* subject_dir.split("-")[-1]
LastPart(name) == <<name[Len(name)]>>

\* glob(os.path.join(args.bids_dir, 'sub-*')), in the order of listing
GlobSubjects(listing, dirs) ==
    SelectSeq(listing, LAMBDA name : name \in dirs /\ Len(name) >= 2 /\ name[1] = "sub")

\* subjects_to_analyze
SubjectsToAnalyze(participant_label, listing, dirs) ==
    IF participant_label # <<>> THEN participant_label
    ELSE [i \in 1..Len(GlobSubjects(listing, dirs)) |-> LastPart(GlobSubjects(listing, dirs)[i])]

\* the subsets of a subject one after the other, until one makes the
\* script exit
RECURSIVE SubsetsProcessed(_, _)
SubsetsProcessed(r, subsets) ==
    IF subsets = <<>> THEN r
    ELSE IF MainRunSubset(SubsetsByName[Head(subsets)]) = "exit(1)"
    THEN RunReturned(r, 1)
    ELSE SubsetsProcessed([r EXCEPT !.processed = Append(r.processed, Head(subsets))],
                          Tail(subsets))

\* one pass of the loop over the subjects: a subject whose directory is
\* there is searched and its subsets are processed, another is skipped
\* with a warning
AfterSubject(r, subject, files) ==
    IF subject \in r.dirs
    THEN SubsetsProcessed([r EXCEPT !.todo = Tail(r.todo),
                                    !.searched = Append(r.searched, subject)],
                          files[subject])
    ELSE [r EXCEPT !.todo = Tail(r.todo), !.skipped = Append(r.skipped, subject)]

\* the names a BIDS root may hold, in the order of listing, and the data
\* files under each
RootListing == <<(<<"sub", "01">>), (<<"sub", "02">>), (<<"01">>)>>

SubsetFiles ==
    { (<<"sub", "01">> :> <<"sub-01_task-a", "sub-01_task-c">>) @@
      (<<"sub", "02">> :> <<"sub-02_task-b", "sub-02_task-a">>) @@
      (<<"01">> :> <<>>),
      (<<"sub", "01">> :> <<"sub-01_task-b">>) @@
      (<<"sub", "02">> :> <<"sub-02_task-b">>) @@
      (<<"01">> :> <<"sub-01_task-a">>) }

\* --participant_label: not given, or the names given
ParticipantLabels ==
    {<<>>, <<(<<"sub", "01">>)>>, <<(<<"sub", "03">>), (<<"sub", "02">>)>>, <<(<<"01">>)>>}

\* the script lists the subjects to analyze
MainRunSubjects ==
    /\ run.phase = "idle"
    /\ \E dirs \in SUBSET {RootListing[i] : i \in 1..Len(RootListing)},
          participant_label \in ParticipantLabels, files \in SubsetFiles :
          run' = [phase |-> "subjects", dirs |-> dirs, files |-> files,
                  participant_label |-> participant_label,
                  todo |-> SubjectsToAnalyze(participant_label, RootListing, dirs),
                  searched |-> <<>>, skipped |-> <<>>, processed |-> <<>>, code |-> 0]
    /\ UNCHANGED <<det, ep, pl, cf>>

\* one pass of the loop over the subjects
MainRunSubject ==
    /\ run.phase = "subjects"
    /\ run.todo # <<>>
    /\ run' = AfterSubject(run, Head(run.todo), run.files)
    /\ UNCHANGED <<det, ep, pl, cf>>

\* the loop is over: the script ends
MainRunFinished ==
    /\ run.phase = "subjects"
    /\ run.todo = <<>>
    /\ run' = RunReturned(run, 0)
    /\ UNCHANGED <<det, ep, pl, cf>>

NextMainRun ==
    \/ MainRunSubjects
    \/ MainRunSubject
    \/ MainRunFinished
    \/ RunDone

SpecMainRun == InitConfig /\ [][NextMainRun]_vars

C19_AllSubjectsSearched ==
    (run.phase = "returned" /\ "dirs" \in DOMAIN run /\ run.participant_label = <<>>
     /\ run.code = 0) =>
        /\ \A name \in run.dirs :
              (Len(name) >= 2 /\ name[1] = "sub") =>
                  /\ \E i \in 1..Len(run.searched) : run.searched[i] = name
                  /\ \A k \in 1..Len(run.files[name]) :
                        \E i \in 1..Len(run.processed) :
                            run.processed[i] = run.files[name][k]
        /\ run.skipped = <<>>

\* C20: in every cell where ieeg_detect_n1 records a response, the averaged
\* signal of the cell at the recorded peak index is the recorded amplitude
C20_PeakIndexInEpoch ==
    DetReturned =>
        \A e \in Elecs, p \in Pairs :
            Recorded(e, p) =>
                At(det.call.data[e][p], det.out.res[e][p].ind) = det.out.res[e][p].amp

\* what the peak finder returned for a cell of the call, and the shifted
\* index of its i-th peak
PeaksReturned(e, p) ==
    FindPeaks(NanToZero(PySlice(det.call.data[e][p], det.out.w.peak_start + 1,
                                det.out.w.peak_end)), det.found)

ShiftedInd(e, p, i) == PeaksReturned(e, p)[i].ind + det.out.w.peak_start

InWindow(e, p) ==
    {i \in 1..Len(PeaksReturned(e, p)) :
        /\ ShiftedInd(e, p, i) >= det.out.w.n1_start
        /\ ShiftedInd(e, p, i) <= det.out.w.n1_end}

\* the i-th returned peak is the recorded one
IsRecordedPeak(e, p, i) ==
    /\ ShiftedInd(e, p, i) = det.out.res[e][p].ind
    /\ PeaksReturned(e, p)[i].mag = det.out.res[e][p].amp

\* C21: the recorded peak is a returned peak inside the response-search
\* window, of the largest absolute magnitude among the returned peaks inside
\* the window, and the first of those of that magnitude
C21_LargestInWindow ==
    DetReturned =>
        \A e \in Elecs, p \in Pairs :
            Recorded(e, p) =>
                \E i \in InWindow(e, p) :
                    /\ IsRecordedPeak(e, p, i)
                    /\ \A j \in InWindow(e, p) :
                          /\ Abs(PeaksReturned(e, p)[j].mag) <= Abs(PeaksReturned(e, p)[i].mag)
                          /\ Abs(PeaksReturned(e, p)[j].mag) = Abs(PeaksReturned(e, p)[i].mag)
                                => i <= j

\* the returned peaks inside the window, the one on the first sample of the
\* searched signal left out
InWindowKept(e, p) == {i \in InWindow(e, p) : PeaksReturned(e, p)[i].ind # 0}

\* C21 (amended): the recorded peak is a returned peak inside the
\* response-search window and not on the first sample of the searched signal,
\* of the largest absolute magnitude among such peaks, and the first of
\* those of that magnitude
C21_LargestKeptInWindow ==
    DetReturned =>
        \A e \in Elecs, p \in Pairs :
            Recorded(e, p) =>
                \E i \in InWindowKept(e, p) :
                    /\ IsRecordedPeak(e, p, i)
                    /\ \A j \in InWindowKept(e, p) :
                          /\ Abs(PeaksReturned(e, p)[j].mag) <= Abs(PeaksReturned(e, p)[i].mag)
                          /\ Abs(PeaksReturned(e, p)[j].mag) = Abs(PeaksReturned(e, p)[i].mag)
                                => i <= j

\* a response is recorded while a larger peak was returned outside the
\* window, and a response is recorded while a peak of the same magnitude
\* follows inside the window
C21_Witness ==
    /\ DetReturned
    /\ \E e \in Elecs, p \in Pairs :
          /\ Recorded(e, p)
          /\ \/ \E i \in InWindowKept(e, p), j \in InWindowKept(e, p) :
                   /\ IsRecordedPeak(e, p, i)
                   /\ i < j
                   /\ PeaksReturned(e, p)[j].mag = PeaksReturned(e, p)[i].mag
             \/ \E k \in 1..Len(PeaksReturned(e, p)) :
                   /\ k \notin InWindow(e, p)
                   /\ Abs(PeaksReturned(e, p)[k].mag) > Abs(det.out.res[e][p].amp)

\* the call of load_data_epochs_averages that was made, with and without
\* metric callbacks
AveragesWith(defer) ==
    LoadDataEpochsAverages(ep.rec, ep.data_format, EpChannels, ep.conditions_onsets, ep.a, defer)

\* C22: load_data_epochs_averages aborts in the same cases and returns the
\* same averages whether or not metric callbacks are registered
C22_CallbacksNeutral ==
    (EpReturned /\ ep.fn = "averages") =>
        /\ AveragesWith(TRUE).status = AveragesWith(FALSE).status
        /\ AveragesWith(TRUE).data = AveragesWith(FALSE).data

\* the call of load_data_epochs that was made, on a recording of the given
\* format
EpochsWith(data_format) ==
    LoadDataEpochs(ep.rec, data_format, EpChannels, ep.conditions_onsets[1], ep.a)

BaselineInsideTrial ==
    /\ ep.a.baseline_epoch[1] >= ep.a.trial_epoch[1]
    /\ ep.a.baseline_epoch[2] <= ep.a.trial_epoch[2]

\* C23: with the baseline epoch inside the trial epoch, the by-channel and
\* the by-trial strategy of load_data_epochs both abort or return the same
\* tensor
C23_StrategiesAgree ==
    (EpReturned /\ ep.fn = "epochs" /\ BaselineInsideTrial) =>
        EpochsWith(0) = EpochsWith(2)

(***************************************************************************)
(* src/erdetect/_erdetect.py, src/main_run.py : the trials of an events    *)
(* table whose cells are strings                                           *)
(***************************************************************************)

\* float(cell) for the onset cells that read as a finite number
OnsetFloats == ("2" :> 2) @@ ("7" :> 7) @@ ("-1" :> -1)

\* is_number(cell): the cell reads as a number, nan included
OnsetIsNumber(cell) == cell \in DOMAIN OnsetFloats \cup {"nan"}

\* an onset before the start of the recording is not discarded
OnsetDiscardedUnlessNegative(cell) == ~OnsetIsNumber(cell) \/ cell = "nan"

\* not is_number(onset) or isnan(float(onset)) or float(onset) < 0
OnsetDiscarded(cell) == ~OnsetIsNumber(cell) \/ cell = "nan" \/ OnsetFloats[cell] < 0

NoTrials == [trial_onsets |-> <<>>, trial_pairs |-> <<>>, trials_bad_onsets |-> <<>>, raised |-> ""]

\* the loop over the rows of the table
RECURSIVE TrialsOfRows(_, _, _)
TrialsOfRows(rows, trials_have_status, acc) ==
    IF rows = <<>> THEN acc
    ELSE IF Lower(Head(rows).trial_type) # "electrical_stimulation"
    THEN TrialsOfRows(Tail(rows), trials_have_status, acc)
    ELSE IF OnsetDiscarded(Head(rows).onset)
    THEN TrialsOfRows(Tail(rows), trials_have_status, acc)
    ELSE IF trials_have_status /\ Lower(Head(rows).status) # "good"
    THEN TrialsOfRows(Tail(rows), trials_have_status,
                      [acc EXCEPT !.trials_bad_onsets = Append(@, Head(rows).onset)])
    ELSE IF SiteInvalid(Head(rows))
    THEN [acc EXCEPT !.raised = "Electrical stimulation site invalid"]
    ELSE TrialsOfRows(Tail(rows), trials_have_status,
                      [acc EXCEPT !.trial_onsets = Append(@, OnsetFloats[Head(rows).onset]),
                                  !.trial_pairs = Append(@, Head(rows).site)])

\* check if there are trials
TrialsChecked(r) ==
    IF r.raised = "" /\ Len(r.trial_onsets) = 0 THEN [r EXCEPT !.raised = "No trials found"]
    ELSE r

\* the trial list of an events table
TrialList(events) ==
    TrialsChecked(TrialsOfRows(events.rows, "status" \in events.columns, NoTrials))

\* the number of rows of an events table
MaxEvents == 2

\* the rows without a status: every onset under the lower-case trial_type,
\* a valid onset under the other trial types
EventCells ==
    [trial_type : {"electrical_stimulation"},
     onset : {"2", "7", "-1", "nan", "n/a"},
     site : {<<"A", "B">>, <<"AB">>}]
    \cup
    [trial_type : {"Electrical_Stimulation", "other"},
     onset : {"2"},
     site : {<<"A", "B">>, <<"AB">>}]

EventCellsWithStatus ==
    [trial_type : {"electrical_stimulation"},
     onset : {"2", "7", "-1", "nan", "n/a"},
     site : {<<"A", "B">>, <<"AB">>},
     status : {"good", "bad"}]
    \cup
    [trial_type : {"Electrical_Stimulation", "other"},
     onset : {"2"},
     site : {<<"A", "B">>, <<"AB">>},
     status : {"good", "Good"}]

\* the events tables, with and without a status column
EventsTables ==
    {[columns |-> {"onset", "trial_type", "electrical_stimulation_site"}, rows |-> rows] :
        rows \in UNION {[1..n -> EventCells] : n \in 0..MaxEvents}}
    \cup
    {[columns |-> {"onset", "trial_type", "electrical_stimulation_site", "status"},
      rows |-> rows] :
        rows \in UNION {[1..n -> EventCellsWithStatus] : n \in 0..MaxEvents}}

\* the events of a subset are read and its trials listed
ListTrials ==
    /\ run.phase = "idle"
    /\ \E events \in EventsTables :
          run' = [phase |-> "returned", events |-> events, out |-> TrialList(events)]
    /\ UNCHANGED <<det, ep, pl, cf>>

NextEvents == ListTrials \/ RunDone

SpecEvents == InitConfig /\ [][NextEvents]_vars

\* the rows that the statement keeps, the cells compared as they are written
HasStatus == "status" \in run.events.columns

OnsetValid(cell) == cell \in DOMAIN OnsetFloats /\ OnsetFloats[cell] >= 0

KeptAsWritten ==
    SelectSeq(run.events.rows,
              LAMBDA row : /\ row.trial_type = "electrical_stimulation"
                           /\ OnsetValid(row.onset)
                           /\ HasStatus => row.status = "good")

\* the same, trial_type and status compared without regard to letter case
KeptAnyCase ==
    SelectSeq(run.events.rows,
              LAMBDA row : /\ Lower(row.trial_type) = "electrical_stimulation"
                           /\ OnsetValid(row.onset)
                           /\ HasStatus => Lower(row.status) = "good")

\* the trial list is that of the rows kept, in table order, and the subset
\* aborts exactly when a kept row has an invalid site or no row is kept
TrialsAreThoseOf(kept) ==
    /\ run.out.raised # "" <=>
            \/ kept = <<>>
            \/ \E i \in 1..Len(kept) : SiteInvalid(kept[i])
    /\ run.out.raised = "" =>
            /\ run.out.trial_onsets = [i \in 1..Len(kept) |-> OnsetFloats[kept[i].onset]]
            /\ run.out.trial_pairs = [i \in 1..Len(kept) |-> kept[i].site]

ListedTrials == run.phase = "returned" /\ "events" \in DOMAIN run

\* C24: the trial list holds, in table order, exactly the rows whose
\* trial_type is electrical_stimulation, whose onset is a number >= 0 and
\* whose status (if there is one) is good, and the subset aborts exactly when
\* such a row has a malformed site or there is none
C24_TrialList == ListedTrials => TrialsAreThoseOf(KeptAsWritten)

\* C24 (amended): the same with trial_type and status compared without
\* regard to letter case
C24_TrialListAnyCase == ListedTrials => TrialsAreThoseOf(KeptAnyCase)

\* a trial is listed from a table in which a row with a malformed site was
\* dropped for its status
C24_Witness ==
    /\ ListedTrials
    /\ run.out.raised = ""
    /\ Len(run.out.trial_onsets) = 1
    /\ Len(run.events.rows) = 2
    /\ HasStatus
    /\ \E i \in 1..2 : /\ SiteInvalid(run.events.rows[i])
                        /\ run.events.rows[i].status = "bad"
                        /\ run.events.rows[i].trial_type = "electrical_stimulation"
                        /\ OnsetValid(run.events.rows[i].onset)

\* C25: ieeg_detect_n1 leaves the averaged tensor that it is given as it
\* was: after the call every element, NaN included, has its value of before
C25_TensorUnchanged == DetReturned => det.out.data = det.call.data

\* C26: once the configuration is resolved (an optional load_config, then
\* the method override), the live configuration passes every rule of the
\* validation pass
C26_ResolvedConfigValid ==
    (cf.phase = "configured" /\ cf.result = "None") => CheckConfig(cf.config, 1) = "ok"

\* C27: after a successful load_config, n1_detect.method is one of the
\* lower-case names std_base, cross_proj and waveform, and the configuration
\* holds the parameter sub-group of that method and of no other
C27_MethodLowerCase ==
    (cf.phase = "returned" /\ cf.result = "ok") =>
        /\ cf.config[<<"n1_detect", "method">>] \in {"std_base", "cross_proj", "waveform"}
        /\ \A m \in {"std_base", "cross_proj", "waveform"} :
              <<"n1_detect", m>> \in cf.config[Dicts] <=> m = cf.config[<<"n1_detect", "method">>]

(***************************************************************************)
(* The polarities of the evoked responses: the command line resolves the   *)
(* detection and visualization switches, process_subset detects, stores    *)
(* and plots by them                                                       *)
(***************************************************************************)

ResponsePolarities == {"negative", "positive"}

\* a configuration as load_config leaves it, for its polarity switches
PolarityConfig(detection, visualization) ==
    (Dicts :> {<<"detection">>, <<"visualization">>}) @@
    [path \in {"detection", "visualization"} \X ResponsePolarities |->
        IF path[1] = "detection" THEN path[2] \in detection ELSE path[2] \in visualization]

\* if args.include_positive_responses: detection and visualization of the
\* positive responses are set
IncludePositive(config, include_positive_responses) ==
    IF include_positive_responses
    THEN AndSet(ConfigSet(config, TRUE, <<"detection", "positive">>), TRUE,
                <<"visualization", "positive">>).config
    ELSE config

\* cfg('visualization', polarity) and not cfg('detection', polarity)
VisualizedOnly(config, polarity) ==
    /\ ConfigGet(config, <<"visualization", polarity>>).value
    /\ ~ConfigGet(config, <<"detection", polarity>>).value

\* the visualization of the negative responses enables their detection;
\* that of the positive responses is left as it is
DetectionEnabledNegative(config, polarity) ==
    IF polarity = "negative" /\ VisualizedOnly(config, polarity)
    THEN ConfigSet(config, TRUE, <<"detection", polarity>>).config
    ELSE config

\* if visualization of a polarity is enabled, make sure detection is as well
DetectionEnabled(config, polarity) ==
    IF VisualizedOnly(config, polarity)
    THEN ConfigSet(config, TRUE, <<"detection", polarity>>).config
    ELSE config

\* the methodological arguments of the command line, for the polarities:
\* the configuration to run with and the polarities warned about
PolarityArguments(config, include_positive_responses) ==
    [config |-> DetectionEnabled(
                    DetectionEnabled(IncludePositive(config, include_positive_responses),
                                     "negative"),
                    "positive"),
     warned |-> {polarity \in ResponsePolarities :
                    VisualizedOnly(IncludePositive(config, include_positive_responses),
                                   polarity)}]

\* the polarities whose switch in a group is on
Enabled(config, group) == {polarity \in ResponsePolarities : ConfigGet(config, <<group, polarity>>).value}

\* process_subset from the detection on: ieeg_detect_er runs for the
\* enabled polarities and binds their peaks; the peaks of the enabled
\* polarities are stored; the images show the peaks of the visualized
\* polarities, and a polarity whose peaks were never bound is an
\* UnboundLocalError there
ProcessSubsetPolarities(config, detection_fails, images) ==
    IF detection_fails /\ Enabled(config, "detection") # {}
    THEN [raised |-> "RuntimeError", detected |-> {}, stored |-> {}, plotted |-> {}]
    ELSE IF images /\ ~(Enabled(config, "visualization") \subseteq Enabled(config, "detection"))
    THEN [raised |-> "UnboundLocalError", detected |-> Enabled(config, "detection"),
          stored |-> Enabled(config, "detection"), plotted |-> {}]
    ELSE [raised |-> "", detected |-> Enabled(config, "detection"),
          stored |-> Enabled(config, "detection"),
          plotted |-> IF images THEN Enabled(config, "visualization") ELSE {}]

\* the command line is read over a loaded configuration
ResolvePolarities ==
    /\ run.phase = "idle"
    /\ \E detection \in SUBSET ResponsePolarities, visualization \in SUBSET ResponsePolarities,
          include_positive_responses \in BOOLEAN :
          run' = [phase |-> "resolved",
                  loaded |-> PolarityConfig(detection, visualization),
                  include_positive_responses |-> include_positive_responses,
                  config |-> PolarityArguments(PolarityConfig(detection, visualization),
                                               include_positive_responses).config,
                  warned |-> PolarityArguments(PolarityConfig(detection, visualization),
                                               include_positive_responses).warned]
    /\ UNCHANGED <<det, ep, pl, cf>>

\* process_subset runs on a subset with the resolved configuration
ProcessPolarities ==
    /\ run.phase = "resolved"
    /\ \E detection_fails \in BOOLEAN, images \in BOOLEAN :
          run' = [phase |-> "returned",
                  loaded |-> run.loaded,
                  include_positive_responses |-> run.include_positive_responses,
                  config |-> run.config,
                  warned |-> run.warned,
                  out |-> ProcessSubsetPolarities(run.config, detection_fails, images)]
    /\ UNCHANGED <<det, ep, pl, cf>>

NextPolarities ==
    \/ ResolvePolarities
    \/ ProcessPolarities
    \/ RunDone

SpecPolarities == InitConfig /\ [][NextPolarities]_vars

\* C28: after the argument processing of the command line, visualization
\* of a polarity enabled implies its detection enabled, whatever the loaded
\* configuration and the flags; so process_subset plots and stores the
\* peaks of no polarity for which the detection was not run
C28_VisualizedIsDetected ==
    /\ run.phase \in {"resolved", "returned"} =>
          Enabled(run.config, "visualization") \subseteq Enabled(run.config, "detection")
    /\ run.phase = "returned" =>
          /\ run.out.raised # "UnboundLocalError"
          /\ run.out.plotted \subseteq run.out.detected
          /\ run.out.stored \subseteq run.out.detected

\* the loaded configuration visualizes the positive responses without
\* detecting them; the detection is enabled with a warning, and the subset
\* is processed with the positive peaks detected, stored and plotted
C28_Witness ==
    /\ run.phase = "returned"
    /\ VisualizedOnly(run.loaded, "positive")
    /\ ~run.include_positive_responses
    /\ "positive" \in run.warned
    /\ run.out.raised = ""
    /\ "positive" \in run.out.plotted
    /\ "positive" \in run.out.stored

(***************************************************************************)
(* src/main_run.py : the subsets of a subject.  A data file is the folder  *)
(* of its session ("" without sessions), the parts of its name and its     *)
(* extension; its path is the three together                               *)
(***************************************************************************)

\* the extensions of the data formats, in the order of the reader
VALID_FORMAT_EXTENSIONS == <<".mefd", ".edf", ".vhdr", ".vmrk", ".eeg">>

\* the values given to --format_extension: "edf" is part of ".edf", ".txt"
\* of no extension of a data format
PartOfExtension == (".edf" :> {".edf"}) @@ (".mefd" :> {".mefd"}) @@ ("edf" :> {".edf"}) @@
                   (".txt" :> {})

\* the extensions to search for, or "exit(1)" at one that is part of no
\* extension of a data format
Extensions(format_extension) ==
    IF format_extension = <<>> THEN VALID_FORMAT_EXTENSIONS
    ELSE IF \E i \in 1..Len(format_extension) : PartOfExtension[format_extension[i]] = {}
    THEN "exit(1)"
    ELSE format_extension

\* the path ends with the extension searched for
EndsWith(file, extension) ==
    IF extension \in DOMAIN PartOfExtension THEN file.ext \in PartOfExtension[extension]
    ELSE file.ext = extension

\* glob of '*' + subset_pattern + '*' + extension in the modality folder
\* of the subject (sessions = FALSE) or of its sessions (sessions = TRUE),
\* in the order of listing
GlobSubsets(listing, sessions, subset_pattern, extension) ==
    SelectSeq(listing, LAMBDA file :
        /\ (file.session # "") = sessions
        /\ subset_pattern = "" \/ \E k \in 1..Len(file.stem) : file.stem[k] = subset_pattern
        /\ EndsWith(file, extension))

\* for subset_pattern in subset_patterns: subsets += glob(...) + glob(...)
RECURSIVE SubsetsOfPatterns(_, _, _)
SubsetsOfPatterns(listing, subset_patterns, extension) ==
    IF subset_patterns = <<>> THEN <<>>
    ELSE GlobSubsets(listing, FALSE, Head(subset_patterns), extension)
         \o GlobSubsets(listing, TRUE, Head(subset_patterns), extension)
         \o SubsetsOfPatterns(listing, Tail(subset_patterns), extension)

\* for extension in extensions: the subsets found, one extension after the
\* other
RECURSIVE SubsetsFound(_, _, _)
SubsetsFound(listing, subset_patterns, extensions) ==
    IF extensions = <<>> THEN <<>>
    ELSE SubsetsOfPatterns(listing, subset_patterns, Head(extensions))
         \o SubsetsFound(listing, subset_patterns, Tail(extensions))

\* subset[:subset.rindex(".")]
SubsetName(subset) == [session |-> subset.session, stem |-> subset.stem]

\* subsets.remove(subset_other): the first entry equal to it goes
RECURSIVE Remove(_, _)
Remove(subsets, subset_other) ==
    IF subsets = <<>> THEN <<>>
    ELSE IF Head(subsets) = subset_other THEN Tail(subsets)
    ELSE <<Head(subsets)>> \o Remove(Tail(subsets), subset_other)

\* for subset_other in reversed(subsets): the iterator goes down from the
\* last index for as long as its index is in the list; another path of the
\* same name is removed
RECURSIVE OthersRemoved(_, _, _)
OthersRemoved(subsets, subset, index) ==
    IF index < 1 \/ index > Len(subsets) THEN subsets
    ELSE IF subsets[index] # subset /\ SubsetName(subsets[index]) = SubsetName(subset)
    THEN OthersRemoved(Remove(subsets, subsets[index]), subset, index - 1)
    ELSE OthersRemoved(subsets, subset, index - 1)

\* for subset in subsets: the iterator goes up from the first index for as
\* long as its index is in the list, which the removals shorten
RECURSIVE Collapsed(_, _)
Collapsed(subsets, index) ==
    IF index > Len(subsets) THEN subsets
    ELSE Collapsed(OthersRemoved(subsets, subsets[index], Len(subsets)), index + 1)

\* --subset_search_pattern or ('',)
SubsetPatterns(subset_search_pattern) ==
    IF subset_search_pattern # <<>> THEN subset_search_pattern ELSE <<"">>

\* the files the folders of a subject may hold
DataFiles ==
    {[session |-> "", stem |-> <<"task-a", "run-1">>, ext |-> ".edf"],
     [session |-> "", stem |-> <<"task-a", "run-1">>, ext |-> ".mefd"],
     [session |-> "", stem |-> <<"task-b", "run-1">>, ext |-> ".mefd"],
     [session |-> "ses-1", stem |-> <<"task-a", "run-1">>, ext |-> ".vhdr"],
     [session |-> "ses-1", stem |-> <<"task-a", "run-1">>, ext |-> ".eeg"]}

\* the most files under a subject
MaxFiles == 3

\* the files under a subject in the order in which they are listed
Listings ==
    UNION {{listing \in [1..n -> DataFiles] :
                \A i, j \in 1..n : listing[i] = listing[j] => i = j} : n \in 0..MaxFiles}

\* the values of --subset_search_pattern and of --format_extension
SubsetSearchPatterns == {<<>>, <<"task-a">>, <<"task-a", "run-1">>, <<"task-c">>}

FormatExtensions == {<<>>, <<".edf">>, <<".mefd", ".edf">>, <<".edf", "edf">>, <<".txt">>}

\* the subsets of a subject are searched and brought down to one format
SearchSubsets ==
    /\ run.phase = "idle"
    /\ \E listing \in Listings, subset_search_pattern \in SubsetSearchPatterns,
          format_extension \in FormatExtensions :
          run' = IF Extensions(format_extension) = "exit(1)"
                 THEN [phase |-> "returned", code |-> 1, listing |-> listing,
                       subset_search_pattern |-> subset_search_pattern,
                       format_extension |-> format_extension,
                       subsets |-> <<>>, todo |-> <<>>, processed |-> <<>>]
                 ELSE [phase |-> "subsets", code |-> 0, listing |-> listing,
                       subset_search_pattern |-> subset_search_pattern,
                       format_extension |-> format_extension,
                       subsets |-> Collapsed(SubsetsFound(listing,
                                       SubsetPatterns(subset_search_pattern),
                                       Extensions(format_extension)), 1),
                       todo |-> Collapsed(SubsetsFound(listing,
                                       SubsetPatterns(subset_search_pattern),
                                       Extensions(format_extension)), 1),
                       processed |-> <<>>]
    /\ UNCHANGED <<det, ep, pl, cf>>

\* one pass of the loop over the subsets: the subset is processed to the
\* end, or the script exits
ProcessListedSubset ==
    /\ run.phase = "subsets"
    /\ run.todo # <<>>
    /\ \E outcome \in {"finished", "exit(1)"} :
          run' = IF outcome = "exit(1)"
                 THEN RunReturned([run EXCEPT !.processed = Append(@, Head(run.todo))], 1)
                 ELSE [run EXCEPT !.processed = Append(@, Head(run.todo)),
                                  !.todo = Tail(@)]
    /\ UNCHANGED <<det, ep, pl, cf>>

\* the loop over the subsets is over
SubsetsFinished ==
    /\ run.phase = "subsets"
    /\ run.todo = <<>>
    /\ run' = RunReturned(run, 0)
    /\ UNCHANGED <<det, ep, pl, cf>>

NextSubsets ==
    \/ SearchSubsets
    \/ ProcessListedSubset
    \/ SubsetsFinished
    \/ RunDone

SpecSubsets == InitConfig /\ [][NextSubsets]_vars

\* the subsets found before the list is brought down to one format
FoundOfRun ==
    SubsetsFound(run.listing, SubsetPatterns(run.subset_search_pattern),
                 Extensions(run.format_extension))

\* the place of the first extension searched for that the path ends with
ExtensionRank(subset) ==
    CHOOSE i \in 1..Len(Extensions(run.format_extension)) :
        /\ EndsWith(subset, Extensions(run.format_extension)[i])
        /\ \A k \in 1..(i - 1) : ~EndsWith(subset, Extensions(run.format_extension)[k])

\* C29: in the legacy script, after the list of subsets is brought down to
\* one format it holds at most one entry for a path without its extension,
\* the one whose extension comes first among the extensions searched for;
\* and no path without its extension is processed twice, whatever the
\* search patterns and the extensions given
C29_OneEntryPerSubset ==
    (run.phase # "idle" /\ "subsets" \in DOMAIN run /\ "listing" \in DOMAIN run) =>
        /\ \A i, j \in 1..Len(run.subsets) :
              SubsetName(run.subsets[i]) = SubsetName(run.subsets[j]) => i = j
        /\ \A i \in 1..Len(run.subsets) : \A k \in 1..Len(FoundOfRun) :
              SubsetName(FoundOfRun[k]) = SubsetName(run.subsets[i]) =>
                  ExtensionRank(run.subsets[i]) <= ExtensionRank(FoundOfRun[k])
        /\ \A i, j \in 1..Len(run.processed) :
              SubsetName(run.processed[i]) = SubsetName(run.processed[j]) => i = j

(***************************************************************************)
(* src/utils/bids.py : the data reader of a call of load_data_epochs or of *)
(* load_data_epochs_averages, step by step                                 *)
(***************************************************************************)

\* __prepare_input: the trial epoch is checked, then the reader is
\* constructed and initialised, then the other arguments are checked; what
\* it raises, and the reader it leaves
PrepareInput(data_format, a, reader_raises) ==
    IF a.trial_epoch[2] < a.trial_epoch[1] THEN [raised |-> "ValueError", reader |-> "none"]
    ELSE IF reader_raises # "" THEN [raised |-> reader_raises, reader |-> "none"]
    ELSE IF PrepareRaises(data_format, a) THEN [raised |-> "ValueError", reader |-> "open"]
    ELSE [raised |-> "", reader |-> "open"]

\* the arguments of the explored calls, and a trial epoch that ends before
\* it starts
ReaderArgs ==
    EpArgs \cup {[trial_epoch |-> <<4, -6>>, baseline_norm |-> "None",
                  baseline_epoch |-> <<-6, 0>>, out_of_bound_handling |-> "error"]}

\* the call checks its input: an exception of __prepare_input becomes the
\* RuntimeError of the call
CallPrepareInput ==
    /\ ep.phase = "idle"
    /\ \E fn \in {"epochs", "averages"}, f \in DataFormats, a \in ReaderArgs,
          onsets \in OnsetLists(OnsetValues), defer \in BOOLEAN,
          reader_raises \in {"", "ValueError", "RuntimeError"} :
            /\ fn = "epochs" => ~defer
            /\ fn = "averages" => \A t \in 1..Len(onsets) : onsets[t] \in AvgOnsetValues
            /\ ep' = [phase |-> IF PrepareInput(f, a, reader_raises).raised # ""
                                THEN "returned" ELSE "prepared",
                      fn |-> fn, rec |-> RampRec, data_format |-> f, a |-> a,
                      conditions_onsets |-> <<onsets>>, defer |-> defer,
                      raised |-> IF PrepareInput(f, a, reader_raises).raised # ""
                                 THEN "RuntimeError" ELSE "",
                      reader |-> PrepareInput(f, a, reader_raises).reader,
                      out |-> IF fn = "epochs" THEN EpochsRaised ELSE AveragesRaised]
    /\ UNCHANGED <<det, pl, cf, run>>

\* the call reads and epochs the data with the strategy of the format: an
\* exception of the strategy becomes the RuntimeError of the call
LoadWithReader ==
    /\ ep.phase = "prepared"
    /\ ep' = [ep EXCEPT
                !.out = IF ep.fn = "epochs"
                        THEN LoadDataEpochs(ep.rec, ep.data_format, EpChannels,
                                            ep.conditions_onsets[1], ep.a)
                        ELSE LoadDataEpochsAverages(ep.rec, ep.data_format, EpChannels,
                                                    ep.conditions_onsets, ep.a, ep.defer),
                !.phase = IF (IF ep.fn = "epochs"
                              THEN LoadDataEpochs(ep.rec, ep.data_format, EpChannels,
                                                  ep.conditions_onsets[1], ep.a)
                              ELSE LoadDataEpochsAverages(ep.rec, ep.data_format, EpChannels,
                                                          ep.conditions_onsets, ep.a,
                                                          ep.defer)).status = "raised"
                          THEN "returned" ELSE "loaded",
                !.raised = IF (IF ep.fn = "epochs"
                               THEN LoadDataEpochs(ep.rec, ep.data_format, EpChannels,
                                                   ep.conditions_onsets[1], ep.a)
                               ELSE LoadDataEpochsAverages(ep.rec, ep.data_format, EpChannels,
                                                           ep.conditions_onsets, ep.a,
                                                           ep.defer)).status = "raised"
                           THEN "RuntimeError" ELSE ""]
    /\ UNCHANGED <<det, pl, cf, run>>

\* data_reader.close(), and the call returns
CloseReader ==
    /\ ep.phase = "loaded"
    /\ ep' = [ep EXCEPT !.reader = "closed", !.phase = "returned"]
    /\ UNCHANGED <<det, pl, cf, run>>

NextReader ==
    \/ CallPrepareInput
    \/ LoadWithReader
    \/ CloseReader
    \/ EpochsDone

SpecReader == InitEpochs /\ [][NextReader]_vars

\* C30: a data reader that load_data_epochs or load_data_epochs_averages
\* has constructed and initialised is closed when the call returns or
\* raises, on every path: the normal return, an argument found invalid
\* after the reader was opened, a failure while reading or epoching
C30_ReaderClosed ==
    (ep.phase = "returned" /\ "reader" \in DOMAIN ep) => ep.reader \in {"none", "closed"}

====
